---- MODULE Spec2Model ----
(***************************************************************************)
(* Decision-and-utterance governor of the Minecraft agent:                 *)
(*   - SpeechManager      (src/src/speech_manager.js)  the Speech Throttle *)
(*   - Planner            (src/src/planner.js)         the Orchestrator    *)
(*   - SurvivalDirector   (src/src/chat.js, 250-400)   the Progression     *)
(*                                                     Planner             *)
(* Times are milliseconds, as in the source.  Math.random() is a draw, in  *)
(* per-mille, from a set of draws.  Configuration values: the defaults of *)
(* baseConfig.behavior (src/src/training_store.js, 368-431).               *)
(***************************************************************************)
EXTENDS Integers, Sequences, FiniteSets, TLC

VARIABLES
    now,          \* Date.now()
    speech,       \* the SpeechManager object (fields as in its constructor)
    lastEnqueue,  \* history: the last enqueue() call, its arguments and result
    admitTimes,   \* history: when the non-direct utterances of the current burst
                  \* window were accepted
    nCalls,       \* history: number of enqueue() calls made
    nAdv,         \* history: number of time advances made
    survival,     \* the SurvivalDirector object
    bot,          \* bot.health, bot.food and bot.inventory
    taskBusy,     \* taskManager.isBusy()
    lastStep,     \* history: the last step() call that passed its gates
    nChanges,     \* history: number of inventory changes made
    planner,      \* the Planner object
    world,        \* how perception sees each player
    muteUntil,    \* memory: muteUntil of each player, 0 when not set
    moving,       \* bot.pathfinder.isMoving()
    lastFollow,   \* history: the last follow request that reached canFollowTarget
    rounds,       \* history: the social turns completed, with the eligible names
    nReq,         \* history: number of chat requests made
    nWorld,       \* history: number of changes of the surroundings made
    lastAuto,     \* history: what the last autonomousStep() did
    gateLog,      \* history: when shouldQueryLLM last returned true and when the
                  \* autonomous step last consulted the backend
    lastDispatch, \* history: how the action list of the last chat request went
    lastRequest,  \* history: the last chat request: which kind, what came of it
    inFlight,     \* the autonomousStep() suspended at an await, and its locals
    loops,        \* the activations of loop() that have not returned: where each is
    stopAsked,    \* history: taskManager.stopTask() was called
    nStarts,      \* history: number of start() calls that called loop()
    llm,          \* the LLMClient object
    ollama,       \* the backend: the names of the models it lists, in order
    generation    \* the generateResponse() call under way: its options, where it
                  \* is, and the history of its requests

speechVars == <<speech, lastEnqueue, admitTimes, nCalls>>
survivalVars == <<survival, bot, taskBusy, lastStep, nChanges>>
traceVars == <<lastAuto, gateLog, lastDispatch, lastRequest, inFlight>>
loopVars == <<loops, stopAsked, nStarts>>
plannerVars ==
    <<planner, world, muteUntil, moving, lastFollow, rounds, nReq, nWorld, traceVars,
      loopVars>>
llmVars == <<llm, ollama, generation>>
vars == <<now, nAdv, speechVars, survivalVars, plannerVars, llmVars>>

----------------------------------------------------------------------------
(* Bounds of the exploration *)

MaxEnqueues == 2
MaxAdvances == 1
MaxBurstCalls == 7
MaxBurstAdvances == 2
MaxQueueCalls == 4
MaxQueueAdvances == 2
MaxSurvivalAdvances == 2
MaxGateAdvances == 2
MaxDispatchRequests == 2
MaxStarts == 1
MaxIterations == 2
MaxDispatchAdvances == 1
MaxGateRequests == 1
MaxInventoryChanges == 1
MaxRequests == 2
MaxFollowAdvances == 2
MaxSocialAdvances == 3
MaxWorldChanges == 1
MaxAutonomousCalls == 3
MaxAutonomousAdvances == 3
MaxChatRequests == 2
MaxRestarts == 2
MaxDrainCalls == 3
MaxSuspendAdvances == 2
MaxOverlapRequests == 2
MaxGenerations == 2
MaxGenerateAdvances == 1
MaxChatAdvances == 2

(* Date.now() when the objects are constructed *)
Now0 == 1000000

(* Math.random() in per-mille: the draws of the ambient gate, of getDelayMs *)
(* and of getAutonomousIntervalMs                                          *)
GateDraws == {50, 500}
DelayDraws == {0, 500}
IntervalDraws == {0, 500}

(* context.players with an entity, as updateContext sees them *)
NearbyCounts == {0, 1}

(* time advances, in ms, between events *)
SpeechDeltas == {1000, 300000}
BurstDeltas == {1000}
QueueDeltas == {300000}
GateDeltas == {5000, 15000}
DispatchDeltas == {30000}
SurvivalDeltas == {10000}
FollowDeltas == {30000, 90000}
SocialDeltas == {300000, 500000}
AutonomousDeltas == {1000, 240000}
ChatDeltas == {5000}

----------------------------------------------------------------------------
(* Configuration: baseConfig.behavior *)

autoChatCooldownMs == 0
perPlayerChatCooldown == 300000
autoChatHistoryMs == 600000
autoChatHistorySize == 20
speechMinDelayMs == 600
speechMaxDelayMs == 2500
speechBusyDelayMs == 6000
speechDirectMinDelayMs == 0
speechDirectMaxDelayMs == 400
speechEventMinDelayMs == 80
speechEventMaxDelayMs == 600
speechBurstWindowMs == 20000
speechBurstMax == 3
speechDirectBurstMax == 6
speechPulseChanceFocused == 30
speechPulseChanceNeutral == 80
speechPulseChanceChatty == 180
speechAutonomousMinIntervalMs == 240000
speechAutonomousMaxIntervalMs == 420000
speechEnergyRecoverPer10s == 2
speechEnergyNightPenalty == 1
speechEnergyDecayOnTalk == 8
speechEnergyDecayOnDirect == 5
speechEnergyDecayOnEvent == 4
stepMs == 10000
username == "bot"
defaultMode == "manual"
chatCooldown == 5000
socialRoundInterval == 500000
socialMaxDistance == 32
etiquetteMuteMinutes == 10
autonomousDecisionCooldownMs == 20000
followGlobalCooldownMs == 30000
followStickMs == 90000
autonomousFollowEnabled == FALSE
autonomousSurvivalEnabled == TRUE
autoPickupDrops == TRUE
fastTickMs == 500
slowTickMs == 2000
survivalStepCooldownMs == 10000
survivalActionCooldownMs == 15000

----------------------------------------------------------------------------
(* Values *)

Max(a, b) == IF a >= b THEN a ELSE b
Min(a, b) == IF a <= b THEN a ELSE b

Reasons == {"direct", "mention", "danger", "event", "gift",
            "autonomous", "pulse", "social", "ambient"}

(* one reason of each class, as inputs *)
ReasonInputs == {"direct", "mention", "event", "autonomous", "ambient"}

NoPlayer == "null"
Players == {"al", "bo", "cy"}
PlayerArgs == Players \cup {NoPlayer}

(* Utterance texts, as sequences of characters *)
TxtEmpty == << >>
TxtHi == <<"H", "i">>
TxtHiBang == <<"h", "i", "!">>
TxtAlHi == <<"A", "l", " ", "h", "i">>
Texts == {TxtEmpty, TxtHi, TxtHiBang}

toLowerCase(c) == IF c = "H" THEN "h" ELSE IF c = "A" THEN "a" ELSE c
isAlnum(c) ==
    c \in {"a", "b", "c", "d", "e", "f", "h", "i", "k", "l", "m", "n", "o", "p", "r", "s",
           "u", "w", "y"}

NoItem == [text |-> TxtEmpty, reason |-> "none", player |-> NoPlayer, delayMs |-> 0]

----------------------------------------------------------------------------
(* SpeechManager: pure parts *)

clampNoUpper(value, lo, hi) == Max(lo, value)

clamp(value, lo, hi) == Max(lo, Min(hi, value))

RECURSIVE collapse(_, _)
collapse(s, acc) ==
    IF s = << >> THEN acc
    ELSE LET c == toLowerCase(Head(s)) IN
         IF isAlnum(c) THEN collapse(Tail(s), Append(acc, c))
         ELSE IF acc # << >> /\ acc[Len(acc)] = " " THEN collapse(Tail(s), acc)
         ELSE collapse(Tail(s), Append(acc, " "))

trim(s) ==
    LET a == IF s # << >> /\ Head(s) = " " THEN Tail(s) ELSE s
    IN IF a # << >> /\ a[Len(a)] = " " THEN SubSeq(a, 1, Len(a) - 1) ELSE a

normalizeText(text) == trim(collapse(text, << >>))

isAutonomousReason(reason) == reason \in {"autonomous", "pulse", "social"}

getAutonomousIntervalMs(u) ==
    LET safeMin == Max(10000, speechAutonomousMinIntervalMs)
        safeMax == Max(safeMin, speechAutonomousMaxIntervalMs)
    IN safeMin + (u * (safeMax - safeMin)) \div 1000

getMode(s) ==
    IF s.socialEnergy <= 30 THEN "focused"
    ELSE IF s.socialEnergy >= 70 THEN "chatty"
    ELSE "neutral"

recoverEnergy(s, t, isDay) ==
    IF t - s.lastEnergyUpdateAt < stepMs THEN s
    ELSE LET steps == (t - s.lastEnergyUpdateAt) \div stepMs
             e1 == clamp(s.socialEnergy + steps * speechEnergyRecoverPer10s, 0, 100)
             e2 == IF ~isDay THEN clamp(e1 - steps * speechEnergyNightPenalty, 0, 100)
                   ELSE e1
         IN [s EXCEPT !.socialEnergy = e2, !.lastEnergyUpdateAt = t]

updateContext(s, nearby, t, isDay) ==
    recoverEnergy([s EXCEPT !.nearby = nearby], t, isDay)

(* the history entries isDuplicate keeps *)
freshHistory(s, t) ==
    SelectSeq(s.messageHistory, LAMBDA item : t - item.timestamp <= autoChatHistoryMs)

(* the timestamps canBurst and recordMessage keep *)
freshTimestamps(stamps, t) ==
    SelectSeq(stamps, LAMBDA ts : t - ts <= speechBurstWindowMs)

(* isDuplicate: result and the object after the call *)
isDuplicate(s, text, t) ==
    LET normalized == normalizeText(text) IN
    IF normalized = << >> THEN [result |-> TRUE, sm |-> s]
    ELSE IF autoChatHistoryMs <= 0 THEN [result |-> FALSE, sm |-> s]
    ELSE LET kept == freshHistory(s, t)
         IN [result |-> \E i \in 1..Len(kept) : kept[i].normalized = normalized,
             sm |-> [s EXCEPT !.messageHistory = kept]]

(* canBurst: result and the object after the call *)
canBurst(s, reason, t) ==
    LET kept == freshTimestamps(s.messageTimestamps, t)
        max == IF reason = "direct" THEN speechDirectBurstMax ELSE speechBurstMax
    IN [result |-> Len(kept) < max, sm |-> [s EXCEPT !.messageTimestamps = kept]]

energyDecay(reason) ==
    IF reason = "direct" THEN speechEnergyDecayOnDirect
    ELSE IF reason \in {"event", "danger", "gift"} THEN speechEnergyDecayOnEvent
    ELSE speechEnergyDecayOnTalk

recordMessage(s, text, player, reason, t, u) ==
    LET normalized == normalizeText(text)
        pushed == IF normalized # << >>
                  THEN Append(s.messageHistory, [normalized |-> normalized, timestamp |-> t])
                  ELSE s.messageHistory
        capped == IF Len(pushed) > autoChatHistorySize
                  THEN SubSeq(pushed, Len(pushed) - autoChatHistorySize + 1, Len(pushed))
                  ELSE pushed
    IN [s EXCEPT
          !.messageHistory = capped,
          !.lastSpokeAt = t,
          !.messageTimestamps = freshTimestamps(Append(s.messageTimestamps, t), t),
          !.lastByPlayer = IF player # NoPlayer
                           THEN [s.lastByPlayer EXCEPT ![player] = t]
                           ELSE s.lastByPlayer,
          !.nextAutonomousAt = IF isAutonomousReason(reason)
                               THEN t + getAutonomousIntervalMs(u)
                               ELSE s.nextAutonomousAt,
          !.socialEnergy = clamp(s.socialEnergy - energyDecay(reason), 0, 100)]

(* the reasons shouldAllow admits at once (line 156) *)
isImmediateReasonNoDirect(reason) == reason \in {"mention", "event", "danger", "gift"}

isImmediateReason(reason) == reason \in {"direct", "mention", "event", "danger", "gift"}

(* the probabilistic gate of the ambient branch, in per-mille *)
pulseChance(s) ==
    LET mode == getMode(s)
        base == IF mode = "focused" THEN speechPulseChanceFocused
                ELSE IF mode = "chatty" THEN speechPulseChanceChatty
                ELSE speechPulseChanceNeutral
        c1 == IF s.nearby = 0 THEN (base * 4) \div 10 ELSE base
    IN IF s.nearby >= 3 THEN (c1 * 6) \div 10 ELSE c1

(* shouldAllow: result and the object after the call; u is Math.random() *)
shouldAllow(s, reason, text, player, t, u) ==
    IF text = << >> THEN [result |-> FALSE, sm |-> s]
    ELSE
    LET priority == reason \in {"direct", "mention"}
        dup == IF priority THEN [result |-> FALSE, sm |-> s] ELSE isDuplicate(s, text, t)
    IN
    IF dup.result THEN [result |-> FALSE, sm |-> dup.sm]
    ELSE
    LET burst == IF priority THEN [result |-> TRUE, sm |-> dup.sm]
                 ELSE canBurst(dup.sm, reason, t)
        s2 == burst.sm
    IN
    IF ~burst.result THEN [result |-> FALSE, sm |-> s2]
    ELSE IF isImmediateReason(reason) THEN [result |-> TRUE, sm |-> s2]
    ELSE IF isAutonomousReason(reason)
         THEN [result |-> ~(t < s2.nextAutonomousAt), sm |-> s2]
    ELSE IF autoChatCooldownMs > 0 /\ t - s2.lastSpokeAt < autoChatCooldownMs
         THEN [result |-> FALSE, sm |-> s2]
    ELSE IF player # NoPlayer /\ perPlayerChatCooldown > 0
            /\ t - s2.lastByPlayer[player] < perPlayerChatCooldown
         THEN [result |-> FALSE, sm |-> s2]
    ELSE [result |-> ~(u > pulseChance(s2)), sm |-> s2]

(* getDelayMs; busy is pathfinder.isMoving() or taskManager.isBusy() *)
getDelayMs(reason, busy, u) ==
    IF reason \in {"danger", "event", "gift"}
    THEN speechEventMinDelayMs
         + (u * (speechEventMaxDelayMs - speechEventMinDelayMs)) \div 1000
    ELSE
    LET direct == reason \in {"direct", "mention"}
        baseMin == IF direct THEN speechDirectMinDelayMs ELSE speechMinDelayMs
        baseMax == IF direct THEN speechDirectMaxDelayMs ELSE speechMaxDelayMs
        top == IF busy THEN Max(baseMax, speechBusyDelayMs) ELSE baseMax
    IN baseMin + (u * (top - baseMin)) \div 1000

(* the reasons enqueue puts at the head of the queue (line 228) *)
isHeadReasonRepliesOnly(reason) == reason \in {"direct", "mention"}

isHeadReason(reason) == reason \in {"direct", "mention", "danger", "event", "gift"}

(* processQueue from the top of its while loop: items without a delay are  *)
(* emitted at once, the first item with a delay is held during its sleep   *)
RECURSIVE drainLoop(_, _, _)
drainLoop(s, t, u) ==
    IF s.queue = << >> THEN [s EXCEPT !.processing = FALSE, !.item = NoItem]
    ELSE LET item == Head(s.queue)
             s1 == [s EXCEPT !.queue = Tail(s.queue)]
         IN IF item.delayMs > 0
            THEN [s1 EXCEPT !.item = item, !.wakeAt = t + item.delayMs]
            ELSE drainLoop(
                   recordMessage(s1, item.text, item.player, item.reason, t, u),
                   t, u)

(* processQueue, line 247: bot.chat throws for the item the consumer slept *)
(* on; the exception leaves processQueue, whose promise is rejected and    *)
(* logged by the catch of enqueue (line 233)                               *)
chatThrows(s) == [s EXCEPT !.item = NoItem]

(* processQueue without the test of the processing flag *)
processQueueUnguarded(s, t, u) == drainLoop([s EXCEPT !.processing = TRUE], t, u)

processQueue(s, t, u) ==
    IF s.processing THEN s
    ELSE drainLoop([s EXCEPT !.processing = TRUE], t, u)

(* enqueue that does not call processQueue *)
enqueueNoDrain(s, text, reason, player, delayMs, t, u, uNext) ==
    LET allow == shouldAllow(s, reason, text, player, t, u) IN
    IF ~allow.result THEN [result |-> FALSE, sm |-> allow.sm]
    ELSE LET entry == [text |-> text, reason |-> reason, player |-> player,
                       delayMs |-> delayMs]
         IN [result |-> TRUE,
             sm |-> IF isHeadReason(reason)
                    THEN [allow.sm EXCEPT !.queue = <<entry>> \o allow.sm.queue]
                    ELSE [allow.sm EXCEPT !.queue = Append(allow.sm.queue, entry)]]

(* enqueue: result and the object after the call *)
(* u is the gate's Math.random(), delayMs the value getDelayMs returned *)
enqueue(s, text, reason, player, delayMs, t, u, uNext) ==
    LET allow == shouldAllow(s, reason, text, player, t, u) IN
    IF ~allow.result THEN [result |-> FALSE, sm |-> allow.sm]
    ELSE LET entry == [text |-> text, reason |-> reason, player |-> player,
                       delayMs |-> delayMs]
             queued == IF isHeadReason(reason)
                       THEN [allow.sm EXCEPT !.queue = <<entry>> \o allow.sm.queue]
                       ELSE [allow.sm EXCEPT !.queue = Append(allow.sm.queue, entry)]
         IN [result |-> TRUE, sm |-> processQueue(queued, t, uNext)]


----------------------------------------------------------------------------
(* SurvivalDirector: the snapshot it reads *)

Items == {"oak_log", "oak_planks", "crafting_table", "wooden_pickaxe",
          "stone_pickaxe", "iron_pickaxe", "cobblestone", "raw_iron", "iron_ore",
          "iron_ingot", "wheat_seeds", "bread", "apple"}

(* what String.endsWith finds at the end of each item name *)
endsWith(name, suffix) ==
    \/ name = "oak_log" /\ suffix = "_log"
    \/ name = "oak_planks" /\ suffix = "_planks"
    \/ name = "wheat_seeds" /\ suffix = "_seeds"

(* item.food of the items of the inventory *)
foodValue(name) == IF name = "bread" THEN 5 ELSE IF name = "apple" THEN 4 ELSE 0

(* the counts the exploration gives to an item, the first is the initial one *)
ItemCounts(name) ==
    IF name = "oak_log" THEN {0, 12}
    ELSE IF name = "oak_planks" THEN {0, 3, 6}
    ELSE IF name = "cobblestone" THEN {0, 2, 3}
    ELSE IF name = "iron_ore" THEN {0, 6}
    ELSE IF name = "iron_ingot" THEN {0, 3, 6}
    ELSE {0, 1}

HealthLevels == {20, 10}
FoodLevels == {20, 13, 12}

EmptyInventory == [i \in Items |-> 0]

Holding(counts) ==
    [health |-> 20, food |-> 20,
     inventory |-> [i \in Items |-> IF i \in DOMAIN counts THEN counts[i] ELSE 0]]

BotInit == Holding(<<>>)

(* the snapshots the director is started on *)
NothingHeld == BotInit
PlanksOnly == Holding([oak_planks |-> 6])
TableAndPlanks == Holding([crafting_table |-> 1, oak_planks |-> 3])
PickAndCobble == Holding([wooden_pickaxe |-> 1, cobblestone |-> 2])
TableAndPlanksWithWood ==
    Holding([crafting_table |-> 1, oak_planks |-> 3, oak_log |-> 12])
PickAndCobbleWithWood ==
    Holding([wooden_pickaxe |-> 1, cobblestone |-> 2, crafting_table |-> 1, oak_log |-> 12])
Hungry == [Holding([bread |-> 1, apple |-> 1]) EXCEPT !.food = 12]
FullKit ==
    Holding([crafting_table |-> 1, oak_log |-> 12, wooden_pickaxe |-> 1,
             stone_pickaxe |-> 1, iron_pickaxe |-> 1])

Snapshots == {NothingHeld, PlanksOnly, TableAndPlanks, PickAndCobble,
              TableAndPlanksWithWood, PickAndCobbleWithWood, Hungry, FullKit}

RECURSIVE sumOver(_, _)
sumOver(f, S) ==
    IF S = {} THEN 0
    ELSE LET x == CHOOSE y \in S : TRUE IN f[x] + sumOver(f, S \ {x})

countItem(b, name) == IF name \in Items THEN b.inventory[name] ELSE 0

hasItem(b, name) == countItem(b, name) > 0

countBySuffix(b, suffixes) ==
    sumOver(b.inventory, {i \in Items : \E suffix \in suffixes : endsWith(i, suffix)})

(* getFoodItem: the held item of highest food value, NoFood if none *)
NoFood == "null"
getFoodItem(b) ==
    LET foods == {i \in Items : b.inventory[i] > 0 /\ foodValue(i) > 0} IN
    IF foods = {} THEN NoFood
    ELSE CHOOSE i \in foods : \A j \in foods : foodValue(i) >= foodValue(j)

----------------------------------------------------------------------------
(* SurvivalDirector: step() *)

NoAction == [call |-> "none", name |-> "", count |-> 0]
Skill(call, name, count) == [call |-> call, name |-> name, count |-> count]
Task(type, target, amount) == [call |-> "startTask:" \o type, name |-> target, count |-> amount]

(* lines 337-396 with the wooden pickaxe tried before the wood threshold *)
progressionPickaxeFirst(b) ==
    LET woodCount == countBySuffix(b, {"_log", "_wood", "_stem", "_hyphae"})
                       + countItem(b, "bamboo_block")
        plankCount == countBySuffix(b, {"_planks", "bamboo_planks"})
    IN
    IF ~hasItem(b, "crafting_table") /\ (woodCount > 0 \/ plankCount > 0)
    THEN Skill("craft_item", "crafting_table", 1)
    ELSE IF ~hasItem(b, "wooden_pickaxe") /\ plankCount >= 3
    THEN Skill("craft_item", "wooden_pickaxe", 1)
    ELSE IF hasItem(b, "wooden_pickaxe") /\ ~hasItem(b, "stone_pickaxe")
            /\ countItem(b, "cobblestone") < 3
    THEN Task("mine", "stone", 12)
    ELSE Task("gather_wood", "", 24)

(* lines 337-396: the progression chain below the eating rule *)
progression(b) ==
    LET woodCount == countBySuffix(b, {"_log", "_wood", "_stem", "_hyphae"})
                       + countItem(b, "bamboo_block")
        plankCount == countBySuffix(b, {"_planks", "bamboo_planks"})
        hasCraftingTable == hasItem(b, "crafting_table")
        hasWoodPickaxe == hasItem(b, "wooden_pickaxe")
        hasStonePickaxe == hasItem(b, "stone_pickaxe")
        hasIronPickaxe == hasItem(b, "iron_pickaxe")
        cobbleCount == countItem(b, "cobblestone")
        rawIron == countItem(b, "raw_iron")
        ironOre == countItem(b, "iron_ore")
        ironIngot == countItem(b, "iron_ingot")
    IN
    IF ~hasCraftingTable /\ (woodCount > 0 \/ plankCount > 0)
    THEN Skill("craft_item", "crafting_table", 1)
    ELSE IF (woodCount + plankCount) < 12
    THEN Task("gather_wood", "", 24)
    ELSE IF ~hasWoodPickaxe /\ plankCount >= 3
    THEN Skill("craft_item", "wooden_pickaxe", 1)
    ELSE IF hasWoodPickaxe /\ ~hasStonePickaxe /\ cobbleCount < 3
    THEN Task("mine", "stone", 12)
    ELSE IF hasWoodPickaxe /\ ~hasStonePickaxe /\ cobbleCount >= 3
    THEN Skill("craft_item", "stone_pickaxe", 1)
    ELSE IF hasStonePickaxe /\ ~hasIronPickaxe /\ (rawIron + ironOre + ironIngot) < 6
    THEN Task("mine", "iron_ore", 6)
    ELSE IF rawIron > 0
    THEN Skill("use_furnace", "raw_iron", Min(rawIron, 8))
    ELSE IF ~hasIronPickaxe /\ ironIngot >= 3
    THEN Skill("craft_item", "iron_pickaxe", 1)
    ELSE IF b.food < 14 /\ countBySuffix(b, {"_seeds"}) > 0
    THEN Task("farm", "", 0)
    ELSE NoAction

(* lines 321-394 read one by one: the condition of each if statement on   *)
(* the snapshot, in the order of the source, and the call its body makes   *)
chain(b) ==
    LET woodCount == countBySuffix(b, {"_log", "_wood", "_stem", "_hyphae"})
                       + countItem(b, "bamboo_block")
        plankCount == countBySuffix(b, {"_planks", "bamboo_planks"})
        iron == countItem(b, "raw_iron") + countItem(b, "iron_ore")
                  + countItem(b, "iron_ingot")
    IN << [when |-> (b.health <= 10 \/ b.food <= 12) /\ getFoodItem(b) # NoFood,
           action |-> Skill("eat", getFoodItem(b), 1)],
          [when |-> ~hasItem(b, "crafting_table") /\ (woodCount > 0 \/ plankCount > 0),
           action |-> Skill("craft_item", "crafting_table", 1)],
          [when |-> (woodCount + plankCount) < 12,
           action |-> Task("gather_wood", "", 24)],
          [when |-> ~hasItem(b, "wooden_pickaxe") /\ plankCount >= 3,
           action |-> Skill("craft_item", "wooden_pickaxe", 1)],
          [when |-> hasItem(b, "wooden_pickaxe") /\ ~hasItem(b, "stone_pickaxe")
                      /\ countItem(b, "cobblestone") < 3,
           action |-> Task("mine", "stone", 12)],
          [when |-> hasItem(b, "wooden_pickaxe") /\ ~hasItem(b, "stone_pickaxe")
                      /\ countItem(b, "cobblestone") >= 3,
           action |-> Skill("craft_item", "stone_pickaxe", 1)],
          [when |-> hasItem(b, "stone_pickaxe") /\ ~hasItem(b, "iron_pickaxe") /\ iron < 6,
           action |-> Task("mine", "iron_ore", 6)],
          [when |-> countItem(b, "raw_iron") > 0,
           action |-> Skill("use_furnace", "raw_iron", Min(countItem(b, "raw_iron"), 8))],
          [when |-> ~hasItem(b, "iron_pickaxe") /\ countItem(b, "iron_ingot") >= 3,
           action |-> Skill("craft_item", "iron_pickaxe", 1)],
          [when |-> b.food < 14 /\ countBySuffix(b, {"_seeds"}) > 0,
           action |-> Task("farm", "", 0)] >>

(* lines 318-396 with a choice that looks at the context argument *)
chooseActionByContext(b, context) ==
    IF (b.health <= 10 \/ b.food <= 12) /\ getFoodItem(b) # NoFood
    THEN Skill("eat", getFoodItem(b), 1)
    ELSE IF context.soloMode THEN progression(b) ELSE NoAction

(* lines 318-396: the action step() takes on a snapshot, NoAction if none; *)
(* context is the argument of step(), which the code never reads           *)
chooseAction(b, context) ==
    IF (b.health <= 10 \/ b.food <= 12) /\ getFoodItem(b) # NoFood
    THEN Skill("eat", getFoodItem(b), 1)
    ELSE progression(b)

shouldStep(sd, t) ==
    IF t - sd.lastStepAt < survivalStepCooldownMs THEN [result |-> FALSE, sd |-> sd]
    ELSE [result |-> TRUE, sd |-> [sd EXCEPT !.lastStepAt = t]]

(* canAct without the action cooldown *)
canActAlways(sd, t) == TRUE

canAct(sd, t) == t - sd.lastActionAt >= survivalActionCooldownMs

markAct(sd, t) == [sd EXCEPT !.lastActionAt = t]

(* step(context) that marks the action cooldown on every call that passed *)
(* the three early returns                                                 *)
stepMarksAlways(sd, b, busy, t, context) ==
    LET gate == shouldStep(sd, t) IN
    IF ~gate.result THEN [acted |-> FALSE, gated |-> FALSE, action |-> NoAction, sd |-> sd]
    ELSE IF ~canAct(gate.sd, t) \/ busy
    THEN [acted |-> FALSE, gated |-> FALSE, action |-> NoAction, sd |-> gate.sd]
    ELSE [acted |-> chooseAction(b, context) # NoAction, gated |-> TRUE,
          action |-> chooseAction(b, context), sd |-> markAct(gate.sd, t)]

(* step(context): acted (the return value), gated (the three early returns *)
(* were passed), the action taken and the object after the call            *)
step(sd, b, busy, t, context) ==
    LET gate == shouldStep(sd, t) IN
    IF ~gate.result THEN [acted |-> FALSE, gated |-> FALSE, action |-> NoAction, sd |-> sd]
    ELSE IF ~canAct(gate.sd, t) \/ busy
    THEN [acted |-> FALSE, gated |-> FALSE, action |-> NoAction, sd |-> gate.sd]
    ELSE LET action == chooseAction(b, context) IN
         IF action = NoAction
         THEN [acted |-> FALSE, gated |-> TRUE, action |-> action, sd |-> gate.sd]
         ELSE [acted |-> TRUE, gated |-> TRUE, action |-> action,
               sd |-> markAct(gate.sd, t)]

SurvivalInit == [lastStepAt |-> 0, lastActionAt |-> 0]

NoStep == [valid |-> FALSE, action |-> NoAction, first |-> NoAction, repeated |-> FALSE]

(* the history of the calls that passed the gates on the current snapshot *)
recordStep(ls, r) ==
    IF ~r.gated THEN ls
    ELSE IF ls.valid THEN [ls EXCEPT !.action = r.action, !.repeated = TRUE]
    ELSE [valid |-> TRUE, action |-> r.action, first |-> r.action, repeated |-> FALSE]

isTask(action) == action.call \in {"startTask:gather_wood", "startTask:mine", "startTask:farm"}

StepContexts == [soloMode : BOOLEAN, mode : {"autonomous", "survival"}]

----------------------------------------------------------------------------
(* Planner: the world it scans and the memory it consults *)

(* how perception sees a player: with an entity within the social distance, *)
(* with an entity beyond it, or listed without an entity                    *)
Sightings == {"near", "far", "unseen"}

sightedDistance(sight) == IF sight = "near" THEN 5 ELSE IF sight = "far" THEN 40 ELSE 0

(* perception.scan().players *)
scanPlayers(w) ==
    { [name |-> p, hasEntity |-> w[p] # "unseen", distance |-> sightedDistance(w[p])]
        : p \in DOMAIN w }

AllNear == [p \in Players |-> "near"]
AllFar == [p \in Players |-> "far"]

(* memory.isMuted / memory.setMuted; muteUntil 0 is the cleared field *)
isMuted(mem, name, t) == mem[name] # 0 /\ t < mem[name]

(* memory after isMuted was asked about names: expired entries are cleared *)
afterIsMuted(mem, names, t) ==
    [p \in DOMAIN mem |-> IF p \in names /\ mem[p] # 0 /\ t >= mem[p] THEN 0 ELSE mem[p]]

setMuted(mem, name, durationMs, t) == [mem EXCEPT ![name] = t + durationMs]

(* the letters of a player name, and the names in localeCompare order *)
nameChars(name) ==
    IF name = "al" THEN <<"a", "l">>
    ELSE IF name = "bo" THEN <<"b", "o">>
    ELSE IF name = "cy" THEN <<"c", "y">>
    ELSE << >>

nameOrder == <<"al", "bo", "cy">>

sortByName(names) == SelectSeq(nameOrder, LAMBDA n : n \in names)

RECURSIVE lower(_)
lower(text) ==
    IF text = << >> THEN << >> ELSE <<toLowerCase(Head(text))>> \o lower(Tail(text))

includes(text, part) ==
    \E i \in 1..(Len(text) - Len(part) + 1) : SubSeq(text, i, i + Len(part) - 1) = part

(* what the reasoning backend returns: nothing, or a chat line (or none)   *)
(* and a list of actions; an action carries its name, its player or target *)
(* argument and whether the skill it names throws when it is called        *)
NullChat == <<"null">>
NoFollow == "none"
Action(name, arg, throws) == [name |-> name, arg |-> arg, throws |-> throws]
DecisionOf(chat, actions) == [valid |-> TRUE, chat |-> chat, actions |-> actions]
Decision(chat, follow) ==
    DecisionOf(chat, IF follow = NoFollow THEN << >> ELSE <<Action("follow", follow, FALSE)>>)
NoDecision == [valid |-> FALSE, chat |-> NullChat, actions |-> << >>]

(* the names executeDecision starts tasks for (lines 508, 517, 523) and    *)
(* the names that resolve to a skill (lines 305, 309, 546)                 *)
TaskStartNames ==
    {"start_mining_task", "start_gather_wood", "start_wood_task", "start_farm_task",
     "start_farming_task"}
SkillNames == {"follow", "pickup_item", "wander"}

skillChars(name) ==
    CASE name = "wander" -> <<"w", "a", "n", "d", "e", "r">>
      [] name = "pickup_item" -> <<"p", "i", "c", "k", "u", "p">>
      [] OTHER -> <<"f", "o", "l", "l", "o", "w">>

(* the apology of executeDecision (line 557), shortened *)
TxtSorry(name) == <<"s", "e", "k", " ">> \o skillChars(name)

----------------------------------------------------------------------------
(* Planner: pure parts *)

PlannerInit ==
    [mode |-> defaultMode,
     lastLLMAt |-> 0,
     lastSocialChatAt |-> 0,
     socialIndex |-> 0,
     lastSpokeAt |-> [p \in Players |-> 0],
     lastAutonomousDecisionAt |-> 0,
     followState |-> [target |-> NoPlayer, since |-> 0, stickUntil |-> 0, lastAny |-> 0],
     lastScanPlayers |-> {},
     isRunning |-> FALSE,
     taskQueue |-> << >>]

(* shouldQueryLLM where a forced query leaves lastLLMAt alone *)
shouldQueryLLMForcedUnrecorded(pl, force, t) ==
    IF force THEN [result |-> TRUE, pl |-> pl]
    ELSE IF chatCooldown <= 0 THEN [result |-> TRUE, pl |-> pl]
    ELSE IF t - pl.lastLLMAt < chatCooldown THEN [result |-> FALSE, pl |-> pl]
    ELSE [result |-> TRUE, pl |-> [pl EXCEPT !.lastLLMAt = t]]

(* shouldQueryLLM: result and the object after the call *)
shouldQueryLLM(pl, force, t) ==
    IF force THEN [result |-> TRUE, pl |-> [pl EXCEPT !.lastLLMAt = t]]
    ELSE IF chatCooldown <= 0 THEN [result |-> TRUE, pl |-> pl]
    ELSE IF t - pl.lastLLMAt < chatCooldown THEN [result |-> FALSE, pl |-> pl]
    ELSE [result |-> TRUE, pl |-> [pl EXCEPT !.lastLLMAt = t]]

shouldAutonomousDecision(pl, t) ==
    IF autonomousDecisionCooldownMs <= 0 THEN [result |-> TRUE, pl |-> pl]
    ELSE IF t - pl.lastAutonomousDecisionAt < autonomousDecisionCooldownMs
    THEN [result |-> FALSE, pl |-> pl]
    ELSE [result |-> TRUE, pl |-> [pl EXCEPT !.lastAutonomousDecisionAt = t]]

(* canAddressPlayer that does not ask memory.isMuted *)
canAddressPlayerMuted(pl, mem, name, t) ==
    IF name = NoPlayer THEN FALSE
    ELSE IF perPlayerChatCooldown <= 0 THEN TRUE
    ELSE t - pl.lastSpokeAt[name] >= perPlayerChatCooldown

canAddressPlayer(pl, mem, name, t) ==
    IF name = NoPlayer THEN FALSE
    ELSE IF isMuted(mem, name, t) THEN FALSE
    ELSE IF perPlayerChatCooldown <= 0 THEN TRUE
    ELSE t - pl.lastSpokeAt[name] >= perPlayerChatCooldown

(* getSocialTarget, lines 53-59: the candidates and the eligible names *)
socialCandidates(players) ==
    {p \in players : p.name # username /\ p.hasEntity /\ p.distance <= socialMaxDistance}

socialEligible(pl, mem, players, t) ==
    {p.name : p \in {c \in socialCandidates(players) : canAddressPlayer(pl, mem, c.name, t)}}

(* getSocialTarget: the name of the player it returns, NoPlayer for null *)
getSocialTarget(pl, mem, players, t) ==
    IF socialRoundInterval <= 0 THEN NoPlayer
    ELSE IF t - pl.lastSocialChatAt < socialRoundInterval THEN NoPlayer
    ELSE LET ordered == sortByName(socialEligible(pl, mem, players, t)) IN
         IF ordered = << >> THEN NoPlayer
         ELSE ordered[(pl.socialIndex % Len(ordered)) + 1]

(* memory after getSocialTarget: isMuted was asked about every candidate *)
memAfterSocialTarget(pl, mem, players, t) ==
    IF socialRoundInterval <= 0 \/ t - pl.lastSocialChatAt < socialRoundInterval THEN mem
    ELSE afterIsMuted(mem, {p.name : p \in socialCandidates(players)}, t)

markSocialSpokeTwice(pl, t) ==
    [pl EXCEPT !.lastSocialChatAt = t, !.socialIndex = pl.socialIndex + 2]

markSocialSpoke(pl, t) ==
    [pl EXCEPT !.lastSocialChatAt = t, !.socialIndex = pl.socialIndex + 1]

markPlayerSpoke(pl, name, t) ==
    IF name = NoPlayer THEN pl ELSE [pl EXCEPT !.lastSpokeAt[name] = t]

updateLastScanPlayers(pl, players) == [pl EXCEPT !.lastScanPlayers = players]

isTargetVisible(pl, name) ==
    IF name = NoPlayer THEN FALSE
    ELSE \E p \in pl.lastScanPlayers : p.name = name /\ p.hasEntity

(* resolveFollowTarget: the names it can return, NoPlayer for null; the    *)
(* nearest visible player is the first of a stable sort by distance, so    *)
(* among equally distant players the order of the scan decides             *)
resolveFollowTarget(pl, mem, arg, t) ==
    IF arg \notin {NoPlayer, "player"} THEN {arg}
    ELSE LET visible == {p \in pl.lastScanPlayers : p.hasEntity /\ ~isMuted(mem, p.name, t)}
         IN IF visible = {} THEN {NoPlayer}
            ELSE {p.name : p \in {v \in visible :
                                    \A o \in visible : v.distance <= o.distance}}

memAfterResolve(pl, mem, arg, t) ==
    IF arg \notin {NoPlayer, "player"} THEN mem
    ELSE afterIsMuted(mem, {p.name : p \in {v \in pl.lastScanPlayers : v.hasEntity}}, t)

(* canFollowTarget without the stick window *)
canFollowTargetNoStick(pl, name, isMoving, t) ==
    IF followGlobalCooldownMs > 0 /\ t - pl.followState.lastAny < followGlobalCooldownMs
    THEN FALSE
    ELSE ~(isMoving /\ pl.followState.target # NoPlayer /\ name # NoPlayer
             /\ name # pl.followState.target)

(* canFollowTarget where a moving pathfinder refuses every target *)
canFollowTargetMovingBlocks(pl, name, isMoving, t) ==
    IF followGlobalCooldownMs > 0 /\ t - pl.followState.lastAny < followGlobalCooldownMs
    THEN FALSE
    ELSE IF pl.followState.target # NoPlayer /\ name # NoPlayer
            /\ pl.followState.target # name
            /\ isTargetVisible(pl, pl.followState.target) /\ t < pl.followState.stickUntil
    THEN FALSE
    ELSE ~(isMoving /\ pl.followState.target # NoPlayer /\ name # NoPlayer)

canFollowTarget(pl, name, isMoving, t) ==
    IF followGlobalCooldownMs > 0 /\ t - pl.followState.lastAny < followGlobalCooldownMs
    THEN FALSE
    ELSE IF pl.followState.target # NoPlayer /\ name # NoPlayer
            /\ pl.followState.target # name
            /\ isTargetVisible(pl, pl.followState.target) /\ t < pl.followState.stickUntil
    THEN FALSE
    ELSE IF isMoving /\ pl.followState.target # NoPlayer /\ name # NoPlayer
            /\ name # pl.followState.target
    THEN FALSE
    ELSE TRUE

(* markFollow that leaves lastAny alone *)
markFollowNoRefresh(pl, name, t) ==
    IF name # NoPlayer
    THEN [pl EXCEPT !.followState =
            [target |-> name, since |-> t, stickUntil |-> t + followStickMs,
             lastAny |-> pl.followState.lastAny]]
    ELSE pl

(* markFollow whose stick window ends before it starts *)
markFollowStickBefore(pl, name, t) ==
    IF name # NoPlayer
    THEN [pl EXCEPT !.followState =
            [target |-> name, since |-> t, stickUntil |-> t - followStickMs, lastAny |-> t]]
    ELSE [pl EXCEPT !.followState.lastAny = t]

markFollow(pl, name, t) ==
    IF name # NoPlayer
    THEN [pl EXCEPT !.followState =
            [target |-> name, since |-> t, stickUntil |-> t + followStickMs, lastAny |-> t]]
    ELSE [pl EXCEPT !.followState.lastAny = t]

(* start(): the object after the call and whether loop() was called *)
start(pl) ==
    IF pl.isRunning THEN [pl |-> pl, looped |-> FALSE]
    ELSE [pl |-> [pl EXCEPT !.isRunning = TRUE], looped |-> TRUE]

(* stop(): the object after the call; taskManager.stopTask() is called *)
stop(pl) == [pl EXCEPT !.isRunning = FALSE]

(* loop(), line 248: a loop whose condition never fails *)
loopConditionAlways(pl) == TRUE

(* loop(), line 248: the condition of the while *)
loopCondition(pl) == pl.isRunning

(* where an iteration of loop() can throw: nowhere, in taskManager.update(), *)
(* at the start of autonomousStep() (the scan), or later in it              *)
Throws == {"no", "update", "scan", "step"}

(* loop(), lines 249-269, without the try block: an exception ends loop() *)
loopUncaught(threw, active, mode) ==
    IF threw = "update" THEN [run |-> "none", next |-> "done", sleepMs |-> 0]
    ELSE IF active THEN [run |-> "none", next |-> "sleepFast", sleepMs |-> fastTickMs]
    ELSE [run |-> IF mode \in {"autonomous", "survival"} THEN "step" ELSE "manual",
          next |-> IF threw = "no" THEN "sleepSlow" ELSE "done",
          sleepMs |-> slowTickMs]

(* loop(), lines 249-269, without the continue of the fast path *)
loopNoContinue(threw, active, mode) ==
    IF threw = "update" THEN [run |-> "none", next |-> "sleepSlow", sleepMs |-> slowTickMs]
    ELSE [run |-> IF mode \in {"autonomous", "survival"} THEN "step" ELSE "manual",
          next |-> "sleepSlow",
          sleepMs |-> IF active THEN fastTickMs + slowTickMs ELSE slowTickMs]

(* loop(), lines 249-269: one pass of the body; what it runs after         *)
(* taskManager.update() returned active, where it sleeps and how long      *)
loop(threw, active, mode) ==
    IF threw = "update" THEN [run |-> "none", next |-> "sleepSlow", sleepMs |-> slowTickMs]
    ELSE IF active THEN [run |-> "none", next |-> "sleepFast", sleepMs |-> fastTickMs]
    ELSE [run |-> IF mode \in {"autonomous", "survival"} THEN "step" ELSE "manual",
          next |-> "sleepSlow",
          sleepMs |-> slowTickMs]

setMode(pl, mode) ==
    IF mode \in {"manual", "autonomous", "survival"} THEN [pl EXCEPT !.mode = mode] ELSE pl

NoFollowCall == [valid |-> FALSE, name |-> NoPlayer, admitted |-> FALSE, same |-> FALSE,
                 different |-> FALSE, sticky |-> FALSE, cooldownElapsed |-> FALSE,
                 moving |-> FALSE]

(* executeDecision, lines 485-499: the state of the call after the chat    *)
(* line was handed to the speech manager with result said                  *)
afterChat(pl, mem, decision, said) ==
    [chatText |-> said.result,
     sm |-> said.sm,
     planner |-> pl,
     mem |-> mem,
     follow |-> NoFollowCall,
     submitted |-> decision.chat # NullChat,
     done |-> 0,
     apologies |-> << >>,
     started |-> << >>,
     escaped |-> FALSE]

(* executeDecision, lines 529-549: the follow branch; the call of the      *)
(* follow skill is outside every try block, so its exception leaves        *)
(* executeDecision                                                         *)
followBranch(acc, a, reason, isMoving, t, targetName) ==
    LET pl == acc.planner
        allowed == reason \in {"direct", "mention"} \/ autonomousFollowEnabled
        asked == allowed /\ targetName # NoPlayer
        admitted == asked /\ canFollowTarget(pl, targetName, isMoving, t)
    IN [acc EXCEPT
          !.planner = IF admitted /\ ~a.throws THEN markFollow(pl, targetName, t) ELSE pl,
          !.mem = IF allowed THEN memAfterResolve(pl, acc.mem, a.arg, t) ELSE acc.mem,
          !.escaped = admitted /\ a.throws,
          !.done = IF admitted /\ a.throws THEN @ ELSE @ + 1,
          !.follow = IF ~asked THEN @
                     ELSE [valid |-> TRUE, name |-> targetName, admitted |-> admitted,
                           same |-> pl.followState.target = targetName,
                           different |-> /\ pl.followState.target # NoPlayer
                                         /\ pl.followState.target # targetName,
                           sticky |-> /\ isTargetVisible(pl, pl.followState.target)
                                      /\ t < pl.followState.stickUntil,
                           cooldownElapsed |->
                               t - pl.followState.lastAny >= followGlobalCooldownMs,
                           moving |-> isMoving]]

(* executeDecision, lines 502-567: one action of the list; nearest is what *)
(* resolveFollowTarget returns when the action names no player             *)
dispatchOne(acc, a, reason, player, isMoving, busy, t, nearest, u) ==
    IF a.name \in TaskStartNames
    THEN [acc EXCEPT !.done = @ + 1,
                     !.started = IF a.name = "start_mining_task" /\ a.arg = NoPlayer
                                 THEN @ ELSE Append(@, a.name)]
    ELSE IF a.name = "follow"
    THEN followBranch(acc, a, reason, isMoving, t,
                      IF a.arg \in {NoPlayer, "player"} THEN nearest ELSE a.arg)
    ELSE IF a.name \in SkillNames /\ a.throws
    THEN [acc EXCEPT !.done = @ + 1,
                     !.apologies = Append(@, a.name),
                     !.sm = enqueue(acc.sm, TxtSorry(a.name), reason, player,
                                    getDelayMs(reason, busy, u), t, 0, 0).sm]
    ELSE [acc EXCEPT !.done = @ + 1]

(* executeDecision, lines 501-569: the loop over decision.actions *)
RECURSIVE dispatch(_, _, _, _, _, _, _, _, _)
dispatch(acc, actions, reason, player, isMoving, busy, t, nearest, u) ==
    IF actions = << >> \/ acc.escaped THEN acc
    ELSE dispatch(dispatchOne(acc, Head(actions), reason, player, isMoving, busy, t,
                              nearest, u),
                  Tail(actions), reason, player, isMoving, busy, t, nearest, u)

(* executeDecision(decision, {reason, player}): chatText (whether the chat *)
(* line was accepted), the objects after the call, what the follow branch  *)
(* did, how many actions were handled, the actions apologised for and      *)
(* whether an exception left the call                                      *)
executeDecision(pl, s, mem, decision, reason, player, isMoving, busy, t, nearest, u, uNext) ==
    dispatch(afterChat(pl, mem, decision,
                       IF decision.chat = NullChat THEN [result |-> FALSE, sm |-> s]
                       ELSE enqueue(s, decision.chat, reason, player,
                                    getDelayMs(reason, busy, u), t, 0, uNext)),
             decision.actions, reason, player, isMoving, busy, t, nearest, u)

NoRound == [target |-> NoPlayer, eligible |-> {}]

(* what an autonomous step did: whether it was solo, whether the survival  *)
(* step acted, which gates it passed, whether the backend was consulted,   *)
(* what it submitted to the speech manager and which skills it issued      *)
NoAuto ==
    [valid |-> FALSE, solo |-> FALSE, mode |-> "manual", moving |-> FALSE, busy |-> FALSE,
     acted |-> FALSE, queried |-> FALSE, consulted |-> FALSE, answered |-> FALSE,
     target |-> NoPlayer, usedSocial |-> FALSE, submitted |-> FALSE, accepted |-> FALSE,
     done |-> 0, apologies |-> << >>, pickedUp |-> FALSE, wandered |-> FALSE,
     escaped |-> FALSE, sincePass |-> 0, sinceConsult |-> 0]

(* no autonomousStep() is suspended; otherwise pc says at which await, and *)
(* the record keeps the locals the rest of the step reads                  *)
NoFlight ==
    [pc |-> "idle", solo |-> FALSE, moving |-> FALSE, drops |-> FALSE, nearby |-> {},
     action |-> NoAction, target |-> NoPlayer, eligible |-> {}, auto |-> NoAuto]

(* autonomousStep, lines 301-313: the query gate is closed *)
idle(early, soloMode, isMoving, drops) ==
    IF ~soloMode THEN early
    ELSE [early EXCEPT
            !.auto.pickedUp = autoPickupDrops /\ drops /\ ~isMoving /\ ~early.busy,
            !.auto.wandered = ~isMoving /\ ~early.busy]

(* autonomousStep, lines 388-414: after executeDecision returned ex; an    *)
(* exception of executeDecision leaves the step                            *)
socialTurnAlways(early, ex, usedSocial, socialTarget, eligible, isMoving, drops, t) ==
    [early EXCEPT
       !.planner = IF usedSocial
                   THEN markPlayerSpoke(markSocialSpoke(ex.planner, t), socialTarget, t)
                   ELSE ex.planner,
       !.sm = ex.sm,
       !.mem = ex.mem,
       !.busy = @ \/ ex.started # << >>,
       !.round = IF usedSocial THEN [target |-> socialTarget, eligible |-> eligible]
                 ELSE NoRound,
       !.auto.usedSocial = usedSocial,
       !.auto.submitted = ex.submitted,
       !.auto.accepted = ex.chatText,
       !.auto.done = ex.done,
       !.auto.apologies = ex.apologies]

socialTurn(early, ex, usedSocial, socialTarget, eligible, isMoving, drops, t) ==
    LET marked == usedSocial /\ ex.chatText /\ ~ex.escaped IN
    [early EXCEPT
       !.planner = IF marked
                   THEN markPlayerSpoke(markSocialSpoke(ex.planner, t), socialTarget, t)
                   ELSE ex.planner,
       !.sm = ex.sm,
       !.mem = ex.mem,
       !.busy = @ \/ ex.started # << >>,
       !.round = IF marked THEN [target |-> socialTarget, eligible |-> eligible]
                 ELSE NoRound,
       !.auto.usedSocial = usedSocial,
       !.auto.submitted = ex.submitted,
       !.auto.accepted = ex.chatText,
       !.auto.done = ex.done,
       !.auto.apologies = ex.apologies,
       !.auto.escaped = ex.escaped,
       !.auto.pickedUp = /\ ~ex.escaped /\ autoPickupDrops /\ drops /\ ~isMoving
                         /\ ~(early.busy \/ ex.started # << >>)]

(* autonomousStep, lines 333-386: the decision, once the gates are passed  *)
(* with planner d and the social target is chosen                          *)
decide(early, d, socialTarget, eligible, mem1, soloMode, isMoving, drops, t, decision, u, uNext) ==
    IF ~decision.valid THEN [early EXCEPT !.planner = d, !.mem = mem1]
    ELSE
    LET chat0 == IF soloMode THEN NullChat ELSE decision.chat
        usedSocial == socialTarget # NoPlayer /\ chat0 \notin {NullChat, << >>}
        chat1 == IF usedSocial /\ ~includes(lower(chat0), lower(nameChars(socialTarget)))
                 THEN nameChars(socialTarget) \o <<",", " ">> \o chat0
                 ELSE chat0
    IN socialTurn([early EXCEPT !.auto.answered = TRUE],
                  executeDecision(d, early.sm, mem1, [decision EXCEPT !.chat = chat1],
                                  "autonomous", socialTarget, isMoving, early.busy, t,
                                  NoPlayer, u, uNext),
                  usedSocial, socialTarget, eligible, isMoving, drops, t)

(* autonomousStep, lines 314-332: the decision gate and the social target, *)
(* after the query gate was passed with planner q                          *)
decisionGate(early, q, d, mem, nearbyPlayers, soloMode, isMoving, drops, t, decision, u, uNext) ==
    IF ~d.result THEN [early EXCEPT !.planner = d.pl, !.auto.queried = TRUE]
    ELSE decide([early EXCEPT !.auto.queried = TRUE, !.auto.consulted = TRUE,
                              !.auto.target = IF soloMode THEN NoPlayer
                                              ELSE getSocialTarget(d.pl, mem,
                                                                   nearbyPlayers, t)],
                d.pl,
                IF soloMode THEN NoPlayer ELSE getSocialTarget(d.pl, mem, nearbyPlayers, t),
                socialEligible(d.pl, mem, nearbyPlayers, t),
                IF soloMode THEN mem ELSE memAfterSocialTarget(d.pl, mem, nearbyPlayers, t),
                soloMode, isMoving, drops, t, decision, u, uNext)

(* autonomousStep, lines 297-313, without the return after a survival      *)
(* action                                                                  *)
consultAfterActing(early, q, st, mem, nearbyPlayers, soloMode, isMoving, drops, t, decision, u, uNext) ==
    IF ~q.result THEN idle(early, soloMode, isMoving, drops)
    ELSE decisionGate(early, q, shouldAutonomousDecision(q.pl, t), mem, nearbyPlayers, soloMode,
                      isMoving, drops, t, decision, u, uNext)

(* autonomousStep, lines 297-313: the return after a survival action and   *)
(* the query gate                                                          *)
consult(early, q, st, mem, nearbyPlayers, soloMode, isMoving, drops, t, decision, u, uNext) ==
    IF st.acted /\ (soloMode \/ early.planner.mode = "survival") THEN early
    ELSE IF ~q.result THEN idle(early, soloMode, isMoving, drops)
    ELSE decisionGate(early, q, shouldAutonomousDecision(q.pl, t), mem, nearbyPlayers, soloMode,
                      isMoving, drops, t, decision, u, uNext)

(* autonomousStep, lines 292-296: the state after the survival step st *)
afterSurvival(pl1, s1, st, mem, busy, soloMode, isMoving) ==
    [planner |-> pl1, sm |-> s1, sd |-> st.sd, mem |-> mem,
     busy |-> busy \/ (st.acted /\ isTask(st.action)),
     step |-> [acted |-> st.acted, gated |-> st.gated, action |-> st.action],
     round |-> NoRound,
     auto |-> [NoAuto EXCEPT !.valid = TRUE, !.solo = soloMode, !.mode = pl1.mode,
                             !.moving = isMoving,
                             !.busy = busy \/ (st.acted /\ isTask(st.action)),
                             !.acted = st.acted]]

(* autonomousStep, lines 287-296: the scan is stored, the context given    *)
(* and the survival step made                                              *)
survive(pl1, s1, st, mem, busy, nearbyPlayers, soloMode, isMoving, drops, t, decision, u, uNext) ==
    consult(afterSurvival(pl1, s1, st, mem, busy, soloMode, isMoving),
            shouldQueryLLM(pl1, FALSE, t), st, mem, nearbyPlayers, soloMode, isMoving,
            drops, t, decision, u, uNext)

(* autonomousStep(): the objects after the call, the result of the         *)
(* survival step it made, the social turn it completed and what it did;    *)
(* drops says whether the scan found drops nearby                          *)
autonomousStep(pl, s, sd, mem, busy, w, isMoving, drops, b, t, isDay, decision, u, uNext) ==
    LET scan == scanPlayers(w)
        nearbyPlayers == {p \in scan : p.hasEntity /\ p.distance <= socialMaxDistance}
        soloMode == nearbyPlayers = {}
        shouldRunSurvival == pl.mode = "survival" \/ (soloMode /\ autonomousSurvivalEnabled)
    IN survive(updateLastScanPlayers(pl, nearbyPlayers),
               updateContext(s, Cardinality({p \in nearbyPlayers : p.hasEntity}), t, isDay),
               IF shouldRunSurvival
               THEN step(sd, b, busy, t, [soloMode |-> soloMode, mode |-> pl.mode])
               ELSE [acted |-> FALSE, gated |-> FALSE, action |-> NoAction, sd |-> sd],
               mem, busy, nearbyPlayers, soloMode, isMoving, drops, t, decision, u, uNext)

(* the fixed replies of processUserRequest (lines 459, 467, 473), shortened *)
TxtAccepted == <<"o", "k">>
TxtUnavailable == <<"l", "l", "m">>
TxtRepeat == <<"h", "m">>

(* the chat request last made: from the general chat (passive) or          *)
(* addressed to the bot, whether the backend was consulted and whether it  *)
(* ended in the fallback utterance                                         *)
NoRequest == [valid |-> FALSE, passive |-> FALSE, consulted |-> FALSE, fallback |-> FALSE]

(* what processUserRequest reports besides the objects: what the follow   *)
(* branch did and how the action list of the decision went                 *)
NoDispatch ==
    [valid |-> FALSE, actions |-> << >>, done |-> 0, apologies |-> << >>,
     escaped |-> FALSE]

(* processUserRequest, lines 456-464: after executeDecision returned ex;   *)
(* an exception of executeDecision leaves the request                      *)
acknowledge(ex, decision, reason, sender, busy, t, u) ==
    [planner |-> ex.planner,
     sm |-> IF ~ex.escaped /\ ~ex.chatText /\ reason \in {"direct", "mention"}
            THEN enqueue(ex.sm, TxtAccepted, reason, sender,
                         getDelayMs(reason, busy, u), t, 0, 0).sm
            ELSE ex.sm,
     mem |-> ex.mem,
     busy |-> busy \/ ex.started # << >>,
     follow |-> ex.follow, passive |-> reason \notin {"direct", "mention"},
     consulted |-> TRUE, fallback |-> FALSE,
     dispatch |-> [valid |-> TRUE, actions |-> decision.actions, done |-> ex.done,
                   apologies |-> ex.apologies, escaped |-> ex.escaped]]

(* processUserRequest, lines 421-476: after the gate was passed with       *)
(* planner pl1 (the scan stored) and speech manager s1 (the context given) *)
respond(pl1, s1, mem1, busy, isMoving, t, sender, reason, decision, available, nearest, u) ==
    IF ~decision.valid
    THEN [planner |-> pl1,
          sm |-> enqueue(s1, IF available THEN TxtRepeat ELSE TxtUnavailable,
                         "direct", sender, getDelayMs("direct", busy, u), t, 0, 0).sm,
          mem |-> mem1, busy |-> busy, follow |-> NoFollowCall,
          passive |-> reason \notin {"direct", "mention"}, consulted |-> TRUE,
          fallback |-> TRUE,
          dispatch |-> NoDispatch]
    ELSE acknowledge(
           executeDecision(pl1, s1, mem1, decision, reason, sender, isMoving, busy, t,
                           nearest, u, 0),
           decision, reason, sender, busy, t, u)

(* processUserRequest(username, message, {reason}): the objects after the  *)
(* call, what the follow branch did and how the action list went;          *)
(* available is llm.isAvailable(), nearest the nearest visible player      *)
processUserRequest(pl, s, mem, busy, w, isMoving, t, isDay, sender, reason, decision, available, nearest, u) ==
    LET force == reason \in {"direct", "mention"}
        passive == ~force
        q == shouldQueryLLM(pl, force, t)
        scan == scanPlayers(w)
    IN
    IF ~q.result
    THEN [planner |-> pl, sm |-> s, mem |-> mem, busy |-> busy, follow |-> NoFollowCall,
          passive |-> passive, consulted |-> FALSE, fallback |-> FALSE,
          dispatch |-> NoDispatch]
    ELSE IF passive /\ isMuted(mem, sender, t)
    THEN [planner |-> q.pl, sm |-> s, mem |-> mem, busy |-> busy, follow |-> NoFollowCall,
          passive |-> passive, consulted |-> FALSE, fallback |-> FALSE,
          dispatch |-> NoDispatch]
    ELSE respond(updateLastScanPlayers(q.pl, scan),
                 updateContext(s, Cardinality({p \in scan : p.hasEntity}), t, isDay),
                 IF passive THEN afterIsMuted(mem, {sender}, t) ELSE mem,
                 busy, isMoving, t, sender, reason, decision, available, nearest, u)

----------------------------------------------------------------------------
(* SpeechManager: state after construction *)

SpeechInit(u) ==
    [queue |-> << >>,
     processing |-> FALSE,
     item |-> NoItem,
     wakeAt |-> 0,
     socialEnergy |-> 55,
     lastEnergyUpdateAt |-> Now0,
     lastSpokeAt |-> 0,
     lastPulseAt |-> 0,
     nextAutonomousAt |-> Now0 + getAutonomousIntervalMs(u),
     messageHistory |-> << >>,
     messageTimestamps |-> << >>,
     lastByPlayer |-> [p \in Players |-> 0],
     nearby |-> 0]

NoCall == [valid |-> FALSE, reason |-> "none", nonEmpty |-> FALSE, accepted |-> FALSE,
           dupEmitted |-> FALSE, dupPending |-> FALSE, burstCount |-> 0,
           gateClosed |-> FALSE, playerCooling |-> FALSE]

----------------------------------------------------------------------------
(* LLMClient (src/src/llm_client.js): the reasoning call *)

NoModel == "null"
defaultModel == "gpt-oss:20b"
lastResortModel == "llama2"
unavailableMs == 60000
NoSize == 1000000

(* what the backend can list; no name holds 'deepseek' *)
Installs ==
    {<< >>, <<"gpt-oss:20b">>, <<"gpt-oss:20b", "qwen3:8b">>,
     <<"gemma:2b", "qwen3:8b", "gpt-oss:20b">>}

(* the constructor *)
LlmInit == [model |-> NoModel, available |-> TRUE, unavailableUntil |-> 0]

markUnavailable(l, t) ==
    [l EXCEPT !.available = FALSE, !.unavailableUntil = t + unavailableMs]

isAvailable(l, t) == l.available /\ t >= l.unavailableUntil

(* init(): the model chosen from the list of the backend, listOk when      *)
(* ollama.list() did not throw                                             *)
init(l, installed, listOk, t) ==
    IF ~listOk THEN markUnavailable([l EXCEPT !.model = defaultModel], t)
    ELSE [l EXCEPT !.available = TRUE, !.unavailableUntil = 0,
                   !.model = IF \E i \in 1..Len(installed) : installed[i] = defaultModel
                             THEN defaultModel
                             ELSE IF Len(installed) > 0 THEN installed[1]
                             ELSE lastResortModel]

(* parseModelSize: the digits before the first 'b' *)
parseModelSize(name) ==
    CASE name = "gpt-oss:20b" -> 20
      [] name = "qwen3:8b" -> 8
      [] name = "gemma:2b" -> 2
      [] OTHER -> NoSize

(* selectFallbackModel: no fallback is configured (options.fallbackModel,  *)
(* routing.fallback and config.llm.fallbackModel are unset), so the        *)
(* smallest listed model other than the current one                        *)
selectFallbackModel(currentModel, installed, listOk) ==
    LET filtered == {installed[i] : i \in 1..Len(installed)} \ {currentModel} IN
    IF ~listOk \/ filtered = {} THEN NoModel
    ELSE CHOOSE m \in filtered :
           \A o \in filtered : parseModelSize(m) <= parseModelSize(o)

(* resolveModel: options.model, else this.model (the routing is empty) *)
resolveModel(l, options) == IF options.model # NoModel THEN options.model ELSE l.model

(* the options of the callers ({reason}), and of the call that asks for    *)
(* the reformulation (line 323)                                            *)
FirstOptions == [retry |-> FALSE, fallbackTried |-> FALSE, model |-> NoModel]
RetryOptions == [retry |-> TRUE, fallbackTried |-> FALSE, model |-> NoModel]

NoGeneration ==
    [pc |-> "idle", options |-> FirstOptions, selected |-> NoModel, requests |-> 0,
     fallbacks |-> 0, reformulations |-> 0, result |-> "none", calls |-> 0]

(* generateResponse, lines 287-294: the client after the availability      *)
(* checks                                                                  *)
enter(l, installed, listOk, t) ==
    IF ~isAvailable(l, t)
    THEN IF t >= l.unavailableUntil THEN init(l, installed, listOk, t) ELSE l
    ELSE IF l.model = NoModel THEN init(l, installed, listOk, t) ELSE l

(* generateResponse, lines 287-309, entered with the client as e left by   *)
(* the checks: null, or the chat request is sent                           *)
requestAfter(e, g, options, t) ==
    IF isAvailable(e, t)
    THEN [llm |-> e,
          gen |-> [g EXCEPT !.pc = "chat", !.options = options,
                            !.selected = resolveModel(e, options), !.requests = @ + 1]]
    ELSE [llm |-> e, gen |-> [g EXCEPT !.pc = "done", !.options = options,
                                       !.result = "null"]]

(* one activation of generateResponse up to its chat request *)
request(l, g, options, installed, listOk, t) ==
    requestAfter(enter(l, installed, listOk, t), g, options, t)

(* lines 339-342: the call gives up *)
giveUp(l, g, t) ==
    [llm |-> markUnavailable(l, t), gen |-> [g EXCEPT !.pc = "done", !.result = "null"]]

(* lines 328-338, the fallback model being fb: a second activation with    *)
(* fallbackTried set, when there is one                                    *)
fallBack(l, g, fb, installed, listOk, t) ==
    IF fb = NoModel THEN giveUp(l, g, t)
    ELSE request([l EXCEPT !.model = fb], [g EXCEPT !.fallbacks = @ + 1],
                 [g.options EXCEPT !.model = fb, !.fallbackTried = TRUE],
                 installed, listOk, t)

ReplyKinds == {"decision", "unparsable", "memory", "error"}

(* generateResponse, lines 311-343: what the call does with the reply of   *)
(* the backend (a decision, a text that is no decision, a memory error,    *)
(* another error)                                                          *)
reply(l, g, kind, installed, listOk, t) ==
    CASE kind = "decision" -> [llm |-> l, gen |-> [g EXCEPT !.pc = "done",
                                                           !.result = "decision"]]
      [] kind = "unparsable" ->
           IF ~g.options.retry
           THEN request(l, [g EXCEPT !.reformulations = @ + 1], RetryOptions,
                        installed, listOk, t)
           ELSE [llm |-> l, gen |-> [g EXCEPT !.pc = "done", !.result = "null"]]
      [] kind = "memory" ->
           IF ~g.options.fallbackTried
           THEN fallBack(l, g, selectFallbackModel(g.selected, installed, listOk),
                         installed, listOk, t)
           ELSE giveUp(l, g, t)
      [] OTHER -> giveUp(l, g, t)

StartIn(snapshots, draws, worlds) ==
    /\ now = Now0
    /\ \E u \in draws : speech = SpeechInit(u)
    /\ lastEnqueue = NoCall
    /\ admitTimes = << >>
    /\ nCalls = 0
    /\ nAdv = 0
    /\ survival = SurvivalInit
    /\ bot \in snapshots
    /\ taskBusy = FALSE
    /\ lastStep = NoStep
    /\ nChanges = 0
    /\ planner = PlannerInit
    /\ world \in worlds
    /\ muteUntil = [p \in Players |-> 0]
    /\ moving = FALSE
    /\ lastFollow = NoFollowCall
    /\ rounds = << >>
    /\ nReq = 0
    /\ nWorld = 0
    /\ lastAuto = NoAuto
    /\ gateLog = [passAt |-> 0, consultAt |-> 0]
    /\ lastDispatch = NoDispatch
    /\ lastRequest = NoRequest
    /\ inFlight = NoFlight
    /\ loops = << >>
    /\ stopAsked = FALSE
    /\ nStarts = 0
    /\ llm = LlmInit
    /\ ollama = << >>
    /\ generation = NoGeneration

Start(snapshots, draws) == StartIn(snapshots, draws, {AllNear})

Init == Start({BotInit}, IntervalDraws)

----------------------------------------------------------------------------
(* SpeechManager: operations *)

sleeping == speech.processing /\ speech.item # NoItem

(* the utterances accepted and not yet emitted *)
pending == IF sleeping THEN <<speech.item>> \o speech.queue ELSE speech.queue

(* who calls enqueue, and with which reason and player *)
Callers ==
    { [reason |-> "direct", player |-> "al"],      \* chat.js:19, planner.js:457-475
      [reason |-> "event", player |-> NoPlayer],     \* observer.js:121-126
      [reason |-> "autonomous", player |-> "al"],  \* planner.js:402-405, social target
      [reason |-> "ambient", player |-> "al"] }

(* the callers of the burst study: replies to chat and event comments *)
BurstCallers ==
    { [reason |-> "direct", player |-> "al"],      \* chat.js:220
      [reason |-> "mention", player |-> "al"],     \* chat.js:224
      [reason |-> "event", player |-> NoPlayer] }    \* observer.js:121-126

(* enqueue(text, {reason, player}) called by the planner, chat or observer *)
Enqueue(texts, callers, busyFlags, delayDraws, maxCalls) ==
    /\ nCalls < maxCalls
    /\ \E text \in texts, c \in callers :
       \E delayMs \in {getDelayMs(c.reason, busy, u) : busy \in busyFlags, u \in delayDraws},
          u \in IF c.reason \in Reasons \ {"ambient"} THEN {0} ELSE GateDraws,
          uNext \in IF isAutonomousReason(c.reason) THEN IntervalDraws ELSE {0} :
         LET r == enqueue(speech, text, c.reason, c.player, delayMs, now, u, uNext)
             norm == normalizeText(text)
             priority == c.reason \in {"direct", "mention"}
             times == IF r.result /\ ~priority
                      THEN Append(freshTimestamps(admitTimes, now), now)
                      ELSE freshTimestamps(admitTimes, now)
         IN /\ speech' = r.sm
            /\ admitTimes' = times
            /\ lastEnqueue' =
                 [valid |-> TRUE, reason |-> c.reason, nonEmpty |-> text # << >>,
                  accepted |-> r.result,
                  dupEmitted |-> \E i \in 1..Len(speech.messageHistory) :
                                    /\ speech.messageHistory[i].normalized = norm
                                    /\ now - speech.messageHistory[i].timestamp
                                         <= autoChatHistoryMs,
                  dupPending |-> \E i \in 1..Len(pending) :
                                    normalizeText(pending[i].text) = norm,
                  burstCount |-> Len(freshTimestamps(speech.messageTimestamps, now)),
                  gateClosed |-> now < speech.nextAutonomousAt,
                  playerCooling |-> /\ c.player # NoPlayer
                                    /\ now - speech.lastByPlayer[c.player]
                                         < perPlayerChatCooldown]
    /\ nCalls' = nCalls + 1
    /\ UNCHANGED <<now, nAdv, survivalVars, plannerVars,
                   llmVars>>

(* processQueue resumes after sleep(item.delayMs): bot.chat, recordMessage, *)
(* then the rest of its while loop                                          *)
Emit ==
    /\ sleeping
    /\ now >= speech.wakeAt
    /\ \E u \in IF isAutonomousReason(speech.item.reason) THEN IntervalDraws ELSE {0} :
         LET it == speech.item
         IN speech' = drainLoop(recordMessage(speech, it.text, it.player, it.reason, now, u),
                                now, u)
    /\ UNCHANGED <<now, lastEnqueue, admitTimes, nCalls, nAdv, survivalVars, plannerVars,
                   llmVars>>

(* updateContext(context) called by the planner with a fresh scan *)
UpdateContext(nearbyCounts) ==
    /\ \E nearby \in nearbyCounts, isDay \in BOOLEAN :
         speech' = updateContext(speech, nearby, now, isDay)
    /\ speech' # speech
    /\ UNCHANGED <<now, lastEnqueue, admitTimes, nCalls, nAdv, survivalVars, plannerVars,
                   llmVars>>

(* time passes; a due timer fires before time moves on *)
Advance(deltas, maxAdv) ==
    /\ nAdv < maxAdv
    /\ ~(sleeping /\ speech.wakeAt <= now)
    /\ \E dt \in deltas :
         now' = IF sleeping THEN Min(now + dt, speech.wakeAt) ELSE now + dt
    /\ nAdv' = nAdv + 1
    /\ UNCHANGED <<speechVars, survivalVars, plannerVars,
                   llmVars>>

Next ==
    \/ Enqueue(Texts, Callers, {FALSE}, DelayDraws, MaxEnqueues)
    \/ Emit
    \/ UpdateContext(NearbyCounts)
    \/ Advance(SpeechDeltas, MaxAdvances)

Spec == Init /\ [][Next]_vars

(* Many utterances in a short time: one text, minimal delays *)
NextBurst ==
    \/ Enqueue({TxtHi}, BurstCallers, {FALSE}, {0}, MaxBurstCalls)
    \/ Emit
    \/ Advance(BurstDeltas, MaxBurstAdvances)

SpecBurst == Init /\ [][NextBurst]_vars

(* urgent and non-urgent utterances meeting in the queue *)
QueueCallers ==
    { [reason |-> "direct", player |-> "al"],        \* chat.js:19
      [reason |-> "event", player |-> NoPlayer],     \* observer.js:121-126
      [reason |-> "autonomous", player |-> "al"] }   \* planner.js:489-492

NextQueue ==
    \/ Enqueue({TxtHi}, QueueCallers, {FALSE}, {0}, MaxQueueCalls)
    \/ Emit
    \/ Advance(QueueDeltas, MaxQueueAdvances)

SpecQueue == Start({BotInit}, {0}) /\ [][NextQueue]_vars

(* autonomous-class utterances only *)
AutonomousCallers ==
    { [reason |-> "autonomous", player |-> NoPlayer],   \* planner.js:489-492
      [reason |-> "social", player |-> "al"],           \* planner.js:402-405
      [reason |-> "pulse", player |-> NoPlayer] }

NextAutonomous ==
    \/ Enqueue({TxtHi, TxtAlHi}, AutonomousCallers, {FALSE}, {0}, MaxAutonomousCalls)
    \/ Emit
    \/ Advance(AutonomousDeltas, MaxAutonomousAdvances)

SpecAutonomous == Start({BotInit}, {0}) /\ [][NextAutonomous]_vars


----------------------------------------------------------------------------
(* SurvivalDirector: operations *)

(* survivalDirector.step(context), as autonomousStep calls it (planner.js:296) *)
SurvivalStep ==
    /\ \E context \in StepContexts :
         LET r == step(survival, bot, taskBusy, now, context) IN
         /\ survival' = r.sd
         /\ taskBusy' = (taskBusy \/ (r.acted /\ isTask(r.action)))
         /\ lastStep' = recordStep(lastStep, r)
    /\ survival' # survival
    /\ UNCHANGED <<now, nAdv, plannerVars, speechVars, bot, nChanges,
                   llmVars>>

(* the foreground task ends *)
TaskFinish ==
    /\ taskBusy
    /\ taskBusy' = FALSE
    /\ UNCHANGED <<now, nAdv, plannerVars, speechVars, survival, bot, lastStep, nChanges,
                   llmVars>>

(* the world changes the snapshot: an item count, health or food *)
InventoryChange ==
    /\ nChanges < MaxInventoryChanges
    /\ \/ \E i \in Items : \E n \in ItemCounts(i) :
            /\ n # bot.inventory[i]
            /\ bot' = [bot EXCEPT !.inventory[i] = n]
       \/ \E h \in HealthLevels : h # bot.health /\ bot' = [bot EXCEPT !.health = h]
       \/ \E f \in FoodLevels : f # bot.food /\ bot' = [bot EXCEPT !.food = f]
    /\ nChanges' = nChanges + 1
    /\ lastStep' = NoStep
    /\ UNCHANGED <<now, nAdv, plannerVars, speechVars, survival, taskBusy,
                   llmVars>>

(* time passes for the planner and the director *)
Tick(deltas, maxAdv) ==
    /\ nAdv < maxAdv
    /\ ~sleeping
    /\ \E dt \in deltas : now' = now + dt
    /\ nAdv' = nAdv + 1
    /\ UNCHANGED <<speechVars, survivalVars, plannerVars,
                   llmVars>>

NextSurvival ==
    \/ SurvivalStep
    \/ TaskFinish
    \/ InventoryChange
    \/ Tick(SurvivalDeltas, MaxSurvivalAdvances)

SpecSurvival == Start(Snapshots, {0}) /\ [][NextSurvival]_vars

----------------------------------------------------------------------------
(* Planner: operations *)

(* what the reasoning backend answers to a chat request and to the         *)
(* autonomous prompt                                                       *)
FollowArgs == {"al", "bo", "player"}
RequestDecisions == {Decision(TxtHi, f) : f \in FollowArgs}
SocialDecisions ==
    {NoDecision, Decision(NullChat, NoFollow), Decision(TxtHi, NoFollow),
     Decision(TxtAlHi, "al")}

(* planner.setMode(mode), called by the chat commands (chat.js:211, 216) *)
SetMode(modes) ==
    /\ \E mode \in modes :
         /\ mode # planner.mode
         /\ planner' = setMode(planner, mode)
    /\ UNCHANGED <<now, nAdv, speechVars, survivalVars, world, muteUntil, moving,
                   lastFollow, rounds, nReq, nWorld, traceVars, loopVars,
                   llmVars>>

(* the state after autonomousStep() returned r *)
AfterAutonomousStep(r) ==
    /\ planner' = r.planner
    /\ speech' = r.sm
    /\ survival' = r.sd
    /\ muteUntil' = r.mem
    /\ taskBusy' = r.busy
    /\ lastStep' = recordStep(lastStep, r.step)
    /\ rounds' = IF r.round = NoRound THEN rounds ELSE Append(rounds, r.round)
    /\ lastAuto' = [r.auto EXCEPT !.sincePass = now - gateLog.passAt,
                                  !.sinceConsult = now - gateLog.consultAt]
    /\ gateLog' = [passAt |-> IF r.auto.queried THEN now ELSE gateLog.passAt,
                   consultAt |-> IF r.auto.consulted THEN now ELSE gateLog.consultAt]

(* the state after processUserRequest() returned r *)
AfterUserRequest(r) ==
    /\ planner' = r.planner
    /\ speech' = r.sm
    /\ muteUntil' = r.mem
    /\ taskBusy' = r.busy
    /\ lastFollow' = IF r.follow.valid THEN r.follow ELSE lastFollow
    /\ lastDispatch' = IF r.dispatch.valid THEN r.dispatch ELSE lastDispatch
    /\ lastRequest' = [valid |-> TRUE, passive |-> r.passive, consulted |-> r.consulted,
                        fallback |-> r.fallback]

(* one pass of loop() in autonomous or survival mode: autonomousStep() *)
AutonomousStep(decisions, dayFlags, dropFlags, delayDraws, intervalDraws) ==
    /\ planner.mode \in {"autonomous", "survival"}
    /\ \E decision \in decisions, isDay \in dayFlags, drops \in dropFlags,
          u \in delayDraws, uNext \in intervalDraws :
         AfterAutonomousStep(
           autonomousStep(planner, speech, survival, muteUntil, taskBusy, world,
                          moving, drops, bot, now, isDay, decision, u, uNext))
    /\ <<planner, speech, survival, muteUntil, lastAuto>>'
          # <<planner, speech, survival, muteUntil, lastAuto>>
    /\ UNCHANGED <<now, nAdv, lastEnqueue, admitTimes, nCalls, bot, nChanges, world,
                   moving, lastFollow, nReq, nWorld, lastDispatch, lastRequest,
                   inFlight, loopVars,
                   llmVars>>

(* the players of the scan within the social distance (lines 280-281) *)
nearbyOf(w) == {p \in scanPlayers(w) : p.hasEntity /\ p.distance <= socialMaxDistance}

(* autonomousStep() up to the await of line 296: the survival step calls a *)
(* skill, and the step is suspended until the skill returns                *)
SuspendAtSurvival(st, nearby) ==
    /\ st.acted
    /\ ~isTask(st.action)
    /\ planner' = updateLastScanPlayers(planner, nearby)
    /\ speech' = updateContext(speech, Cardinality(nearby), now, TRUE)
    /\ survival' = st.sd
    /\ lastStep' = recordStep(lastStep, st)
    /\ inFlight' = [NoFlight EXCEPT !.pc = "survival", !.solo = nearby = {},
                                    !.moving = moving, !.drops = TRUE,
                                    !.nearby = nearby, !.action = st.action]

StepToSurvival ==
    /\ planner.mode \in {"autonomous", "survival"}
    /\ inFlight.pc = "idle"
    /\ planner.mode = "survival" \/ (nearbyOf(world) = {} /\ autonomousSurvivalEnabled)
    /\ SuspendAtSurvival(step(survival, bot, taskBusy, now,
                              [soloMode |-> nearbyOf(world) = {}, mode |-> planner.mode]),
                         nearbyOf(world))
    /\ UNCHANGED <<now, nAdv, lastEnqueue, admitTimes, nCalls, bot, taskBusy, nChanges,
                   world, muteUntil, moving, lastFollow, rounds, nReq, nWorld, lastAuto,
                   gateLog, lastDispatch, lastRequest, loopVars,
                   llmVars>>

(* the state after the suspended step went on and ended as r *)
AfterResume(r) ==
    /\ planner' = r.planner
    /\ speech' = r.sm
    /\ muteUntil' = r.mem
    /\ taskBusy' = r.busy
    /\ rounds' = IF r.round = NoRound THEN rounds ELSE Append(rounds, r.round)
    /\ inFlight' = NoFlight

(* autonomousStep() from line 297 on, once the skill of the survival step  *)
(* has returned: this.mode is read again                                   *)
ResumeFromSurvival(r) ==
    /\ AfterResume(r)
    /\ lastAuto' = [r.auto EXCEPT !.sincePass = now - gateLog.passAt,
                                  !.sinceConsult = now - gateLog.consultAt]
    /\ gateLog' = [passAt |-> IF r.auto.queried THEN now ELSE gateLog.passAt,
                   consultAt |-> IF r.auto.consulted THEN now ELSE gateLog.consultAt]

StepFromSurvival(decisions) ==
    /\ inFlight.pc = "survival"
    /\ \E decision \in decisions :
         ResumeFromSurvival(
           survive(planner, speech,
                   [acted |-> TRUE, gated |-> TRUE, action |-> inFlight.action,
                    sd |-> survival],
                   muteUntil, taskBusy, inFlight.nearby, inFlight.solo, inFlight.moving,
                   inFlight.drops, now, decision, 0, 0))
    /\ UNCHANGED <<now, nAdv, lastEnqueue, admitTimes, nCalls, survival, bot, lastStep,
                   nChanges, world, moving, lastFollow, nReq, nWorld, lastDispatch,
                   lastRequest, loopVars,
                   llmVars>>

(* autonomousStep() up to the await of line 382: both gates are passed and *)
(* llm.generateResponse is called; until it answers, the objects are as a  *)
(* step without a decision leaves them                                     *)
SuspendAtBackend(r, nearby) ==
    /\ r.auto.consulted
    /\ AfterAutonomousStep(r)
    /\ inFlight' =
         [NoFlight EXCEPT
            !.pc = "backend", !.solo = r.auto.solo, !.moving = moving,
            !.drops = TRUE, !.nearby = nearby, !.target = r.auto.target,
            !.eligible = socialEligible(r.planner, muteUntil, nearby, now),
            !.auto = r.auto]

ToBackend ==
    /\ planner.mode \in {"autonomous", "survival"}
    /\ inFlight.pc = "idle"
    /\ SuspendAtBackend(autonomousStep(planner, speech, survival, muteUntil, taskBusy,
                                       world, moving, TRUE, bot, now, TRUE, NoDecision,
                                       0, 0),
                        nearbyOf(world))
    /\ UNCHANGED <<now, nAdv, lastEnqueue, admitTimes, nCalls, bot, nChanges, world,
                   moving, lastFollow, nReq, nWorld, lastDispatch, lastRequest,
                   llmVars>>

(* autonomousStep() from line 383 on, once llm.generateResponse answered *)
ResumeFromBackend(r) ==
    /\ AfterResume(r)
    /\ lastAuto' = [r.auto EXCEPT !.sincePass = lastAuto.sincePass,
                                  !.sinceConsult = lastAuto.sinceConsult]

FromBackend(decisions) ==
    /\ inFlight.pc = "backend"
    /\ \E decision \in decisions :
         ResumeFromBackend(
           decide([planner |-> planner, sm |-> speech, sd |-> survival,
                   mem |-> muteUntil, busy |-> taskBusy,
                   step |-> [acted |-> FALSE, gated |-> FALSE, action |-> NoAction],
                   round |-> NoRound, auto |-> inFlight.auto],
                  planner, inFlight.target, inFlight.eligible, muteUntil, inFlight.solo,
                  inFlight.moving, inFlight.drops, now, decision, 0, 0))
    /\ UNCHANGED <<now, nAdv, lastEnqueue, admitTimes, nCalls, survival, bot, lastStep,
                   nChanges, world, moving, lastFollow, nReq, nWorld, gateLog,
                   lastDispatch, lastRequest,
                   llmVars>>

(* the step called outside a modelled activation of loop() *)
StepToBackend == ToBackend /\ UNCHANGED loopVars

StepFromBackend(decisions) == FromBackend(decisions) /\ UNCHANGED loopVars

(* a chat line addressed to the bot: processUserRequest (chat.js:220, 224) *)
ProcessUserRequest(users, reasons, decisions, delayDraws, maxReq) ==
    /\ nReq < maxReq
    /\ \E sender \in users, reason \in reasons, decision \in decisions,
          u \in delayDraws :
       \E available \in IF decision.valid THEN {TRUE} ELSE BOOLEAN :
       \E nearest \in resolveFollowTarget(
                         updateLastScanPlayers(planner, scanPlayers(world)),
                         muteUntil, "player", now) :
         /\ AfterUserRequest(
              processUserRequest(planner, speech, muteUntil, taskBusy, world, moving,
                                 now, TRUE, sender, reason, decision, available,
                                 nearest, u))
         /\ gateLog' = IF shouldQueryLLM(planner, reason \in {"direct", "mention"},
                                         now).result
                       THEN [gateLog EXCEPT !.passAt = now] ELSE gateLog
    /\ nReq' = nReq + 1
    /\ UNCHANGED <<now, nAdv, lastEnqueue, admitTimes, nCalls, survival, bot, lastStep,
                   nChanges, world, moving, rounds, nWorld, lastAuto, inFlight,
                   loopVars,
                   llmVars>>

(* the delay of the utterance in flight ends: time reaches wakeAt and      *)
(* processQueue resumes                                                    *)
Wake(intervalDraws) ==
    /\ sleeping
    /\ now' = Max(now, speech.wakeAt)
    /\ \E u \in intervalDraws :
         LET it == speech.item
         IN speech' = drainLoop(recordMessage(speech, it.text, it.player, it.reason,
                                              now', u), now', u)
    /\ UNCHANGED <<nAdv, lastEnqueue, admitTimes, nCalls, survivalVars, plannerVars,
                   llmVars>>

(* a player comes near, moves away or loses its entity *)
WorldChange(players, sightings) ==
    /\ nWorld < MaxWorldChanges
    /\ \E p \in players, sight \in sightings :
         /\ sight # world[p]
         /\ world' = [world EXCEPT ![p] = sight]
    /\ nWorld' = nWorld + 1
    /\ UNCHANGED <<now, nAdv, speechVars, survivalVars, planner, muteUntil, moving,
                   lastFollow, rounds, nReq, traceVars, loopVars,
                   llmVars>>

(* a player asks in the general chat for quiet, without addressing the     *)
(* bot: memory.setMuted (chat.js:168-175)                                  *)
Mute ==
    /\ nWorld < MaxWorldChanges
    /\ \E p \in Players :
         /\ ~isMuted(muteUntil, p, now)
         /\ muteUntil' = setMuted(muteUntil, p, etiquetteMuteMinutes * 60000, now)
    /\ nWorld' = nWorld + 1
    /\ UNCHANGED <<now, nAdv, speechVars, survivalVars, planner, world, moving,
                   lastFollow, rounds, nReq, traceVars, loopVars,
                   llmVars>>

(* the pathfinder starts or stops moving the bot *)
SetMoving ==
    /\ nWorld < MaxWorldChanges
    /\ moving' = ~moving
    /\ nWorld' = nWorld + 1
    /\ UNCHANGED <<now, nAdv, speechVars, survivalVars, planner, world, muteUntil,
                   lastFollow, rounds, nReq, traceVars, loopVars,
                   llmVars>>

(* chat requests to follow players *)
NextFollow ==
    \/ ProcessUserRequest({"al"}, {"direct", "mention"}, RequestDecisions, {0},
                          MaxRequests)
    \/ WorldChange({"al", "bo"}, {"near", "unseen"})
    \/ SetMoving
    \/ Tick(FollowDeltas, MaxFollowAdvances)

SpecFollow == Start({BotInit}, {0}) /\ [][NextFollow]_vars

(* the autonomous loop among players *)
NextSocial ==
    \/ SetMode({"autonomous"})
    \/ AutonomousStep(SocialDecisions, {TRUE}, {FALSE}, {0}, {0})
    \/ Wake({0})
    \/ WorldChange({"bo", "cy"}, {"near", "far"})
    \/ Mute
    \/ Tick(SocialDeltas, MaxSocialAdvances)

SpecSocial == Start({BotInit}, {0}) /\ [][NextSocial]_vars

(* utterances told apart by their texts: the n-th call of enqueue submits  *)
(* the n-th text; every sleep of the consumer ends                         *)
DrainTexts == <<TxtHi, TxtAlHi, TxtAccepted, TxtRepeat, TxtUnavailable>>

NextDrain ==
    \/ Enqueue({DrainTexts[nCalls + 1]}, BurstCallers, {FALSE}, {0, 500}, MaxDrainCalls)
    \/ Wake({0})

(* the end of a sleep is enabled exactly while the consumer sleeps *)
FairWake ==
    \/ []<>(~sleeping)
    \/ []<><<Wake({0})>>_vars

SpecDrain == Start({BotInit}, {0}) /\ [][NextDrain]_vars /\ FairWake

(* the sleep of the consumer ends and bot.chat throws *)
SinkThrows ==
    /\ sleeping
    /\ now' = Max(now, speech.wakeAt)
    /\ speech' = chatThrows(speech)
    /\ UNCHANGED <<nAdv, lastEnqueue, admitTimes, nCalls, survivalVars, plannerVars,
                   llmVars>>

(* utterances emitted through a sink that can fail *)
NextSink ==
    \/ Enqueue({DrainTexts[nCalls + 1]}, BurstCallers, {FALSE}, {0, 500}, MaxDrainCalls)
    \/ Wake({0})
    \/ SinkThrows

SpecSink == Start({BotInit}, {0}) /\ [][NextSink]_vars

(* chat lines addressed to the bot and lines of the general chat, with a   *)
(* backend that sometimes gives no decision                                *)
ChatDecisions == {NoDecision, Decision(TxtHi, NoFollow), Decision(NullChat, NoFollow)}

NextChat ==
    \/ ProcessUserRequest({"al"}, {"direct", "social"}, ChatDecisions, {0, 500},
                          MaxChatRequests)
    \/ Mute
    \/ Wake({0})
    \/ Tick(ChatDeltas, MaxChatAdvances)

SpecChat == Start({BotInit}, {0}) /\ [][NextChat]_vars

(* chat requests answered with lists of actions, some of which fail *)
DispatchActions ==
    {Action("follow", "al", th) : th \in BOOLEAN}
      \cup {Action("wander", NoPlayer, th) : th \in BOOLEAN}
      \cup {Action("dance", NoPlayer, FALSE), Action("start_mining_task", "stone", FALSE)}

DispatchDecisions == {DecisionOf(TxtHi, <<a, b>>) : a \in DispatchActions, b \in DispatchActions}

NextDispatch ==
    \/ ProcessUserRequest({"al"}, {"direct"}, DispatchDecisions, {0}, MaxDispatchRequests)
    \/ TaskFinish
    \/ Tick(DispatchDeltas, MaxDispatchAdvances)

SpecDispatch == Start({BotInit}, {0}) /\ [][NextDispatch]_vars

(* planner.start(): loop() runs up to its first await, past the first      *)
(* check of the running flag                                               *)
PlannerStartUpTo(maxStarts) ==
    /\ nStarts < maxStarts
    /\ start(planner).looped
    /\ planner' = start(planner).pl
    /\ loops' = Append(loops, [pc |-> "body", wakeAt |-> now, active |-> FALSE,
                               ran |-> "none", threw |-> FALSE])
    /\ nStarts' = nStarts + 1
    /\ UNCHANGED <<now, nAdv, speechVars, survivalVars, world, muteUntil, moving,
                   lastFollow, rounds, nReq, nWorld, traceVars, stopAsked,
                   llmVars>>

PlannerStart == PlannerStartUpTo(MaxStarts)

(* planner.stop() *)
PlannerStop ==
    /\ planner.isRunning \/ ~stopAsked
    /\ planner' = stop(planner)
    /\ stopAsked' = TRUE
    /\ UNCHANGED <<now, nAdv, speechVars, survivalVars, world, muteUntil, moving,
                   lastFollow, rounds, nReq, nWorld, traceVars, loops, nStarts,
                   llmVars>>

(* loops without activation i, which returned *)
returned(i) == SubSeq(loops, 1, i - 1) \o SubSeq(loops, i + 1, Len(loops))

(* loop(), line 248: an activation checks the running flag *)
LoopCheck ==
    /\ \E i \in 1..Len(loops) :
         /\ loops[i].pc = "check"
         /\ loops' = IF loopCondition(planner) THEN [loops EXCEPT ![i].pc = "body"]
                      ELSE returned(i)
    /\ UNCHANGED <<now, nAdv, speechVars, survivalVars, planner, world, muteUntil,
                   moving, lastFollow, rounds, nReq, nWorld, traceVars, stopAsked,
                   nStarts,
                   llmVars>>

(* what the pass p of activation i leaves in loops; active is what         *)
(* taskManager.update() returned, if it returned                           *)
afterPass(i, p, threw, active) ==
    IF p.next = "done" THEN returned(i)
    ELSE [loops EXCEPT ![i] = [pc |-> p.next, wakeAt |-> now + p.sleepMs,
                               active |-> active /\ threw # "update", ran |-> p.run,
                               threw |-> threw # "no"]]

(* loop(), lines 249-269: one pass of the body of activation i *)
Pass(i, p, threw, active, decisions) ==
    /\ loops' = afterPass(i, p, threw, active)
    /\ \/ /\ p.run = "step"
          /\ threw # "scan"
          /\ \E decision \in decisions :
               AfterAutonomousStep(
                 autonomousStep(planner, speech, survival, muteUntil, taskBusy, world,
                                moving, TRUE, bot, now, TRUE, decision, 0, 0))
          /\ UNCHANGED <<now, nAdv, lastEnqueue, admitTimes, nCalls, bot, nChanges,
                         world, moving, lastFollow, nReq, nWorld, lastDispatch,
                         lastRequest, inFlight, stopAsked, nStarts,
                   llmVars>>
       \/ /\ p.run = "manual"
          /\ planner' = [planner EXCEPT !.taskQueue = IF @ = << >> THEN @ ELSE Tail(@)]
          /\ UNCHANGED <<now, nAdv, speechVars, survivalVars, world, muteUntil, moving,
                         lastFollow, rounds, nReq, nWorld, traceVars, stopAsked,
                         nStarts,
                   llmVars>>
       \/ /\ p.run = "none" \/ (p.run = "step" /\ threw = "scan")
          /\ UNCHANGED <<now, nAdv, speechVars, survivalVars, planner, world, muteUntil,
                         moving, lastFollow, rounds, nReq, nWorld, traceVars,
                         stopAsked, nStarts,
                   llmVars>>

LoopBody(decisions) ==
    \E i \in 1..Len(loops), threw \in Throws, active \in BOOLEAN :
      /\ loops[i].pc = "body"
      /\ active => threw \in {"no", "update"}
      /\ Pass(i, loop(threw, active, planner.mode), threw, active, decisions)

(* a timer of loop() fires (lines 252, 269): time reaches the earliest     *)
(* deadline, once no activation is ready to run                            *)
LoopWake ==
    /\ nAdv < MaxIterations \/ ~planner.isRunning
    /\ \A j \in 1..Len(loops) : loops[j].pc \notin {"check", "body"}
    /\ \E i \in 1..Len(loops) :
         /\ loops[i].pc \in {"sleepFast", "sleepSlow"}
         /\ \A j \in 1..Len(loops) :
              loops[j].pc \in {"sleepFast", "sleepSlow"} => loops[i].wakeAt <= loops[j].wakeAt
         /\ now' = Max(now, loops[i].wakeAt)
         /\ loops' = [loops EXCEPT ![i].pc = "check"]
    /\ nAdv' = IF nAdv < MaxIterations THEN nAdv + 1 ELSE nAdv
    /\ UNCHANGED <<speechVars, survivalVars, planner, world, muteUntil, moving,
                   lastFollow, rounds, nReq, nWorld, traceVars, stopAsked, nStarts,
                   llmVars>>

(* the tick loop, started and stopped *)
LoopDecisions == {NoDecision, Decision(TxtHi, NoFollow)}

sleepingLoop(l) == l.pc \in {"sleepFast", "sleepSlow"}

NextLoop ==
    \/ PlannerStart
    \/ PlannerStop
    \/ SetMode({"autonomous"})
    \/ LoopCheck
    \/ LoopBody(LoopDecisions)
    \/ LoopWake
    \/ TaskFinish

SpecLoop == StartIn({BotInit}, {0}, {AllFar}) /\ [][NextLoop]_vars

(* the tick loop, started and stopped, the backend silent; the event loop  *)
(* runs every continuation that is ready and fires every timer that is due *)
NextLoopFair ==
    \/ PlannerStart
    \/ PlannerStop
    \/ SetMode({"autonomous"})
    \/ LoopCheck
    \/ LoopBody({NoDecision})
    \/ LoopWake

(* the tick loop stopped and started again *)
NextRestart ==
    \/ PlannerStartUpTo(MaxRestarts)
    \/ PlannerStop
    \/ SetMode({"autonomous"})
    \/ LoopCheck
    \/ LoopBody({NoDecision})
    \/ LoopWake

SpecRestart == StartIn({BotInit}, {0}, {AllFar}) /\ [][NextRestart]_vars

(* a pass of the body is enabled exactly when an activation is at its body *)
FairBody ==
    \/ []<>(\A i \in 1..Len(loops) : loops[i].pc # "body")
    \/ []<><<LoopBody({NoDecision})>>_vars

SpecLoopFair ==
    /\ StartIn({BotInit}, {0}, {AllFar})
    /\ [][NextLoopFair]_vars
    /\ WF_vars(LoopCheck)
    /\ FairBody
    /\ WF_vars(LoopWake)

(* the autonomous loop against its gates, alone and among players *)
GateDecisions ==
    {NoDecision, DecisionOf(TxtHi, <<Action("wander", NoPlayer, FALSE)>>)}

NextGates ==
    \/ SetMode({"autonomous", "survival"})
    \/ AutonomousStep(GateDecisions, {TRUE}, {TRUE}, {0}, {0})
    \/ ProcessUserRequest({"al"}, {"direct"}, {Decision(NullChat, NoFollow)}, {0},
                          MaxGateRequests)
    \/ TaskFinish
    \/ Tick(GateDeltas, MaxGateAdvances)

SpecGates == StartIn({BotInit, FullKit}, {0}, {AllNear, AllFar}) /\ [][NextGates]_vars

(* the mode changed by chat commands while the autonomous step waits for   *)
(* the skill of its survival step                                          *)
NextSuspend ==
    \/ SetMode({"survival", "manual"})
    \/ StepToSurvival
    \/ StepFromSurvival(GateDecisions)
    \/ Tick(GateDeltas, MaxSuspendAdvances)

SpecSuspend == StartIn({PlanksOnly, Hungry}, {0}, {AllNear}) /\ [][NextSuspend]_vars

(* loop(), line 257, when autonomousStep() reaches llm.generateResponse:   *)
(* activation i is suspended with the step                                 *)
LoopToBackend ==
    /\ \E i \in 1..Len(loops) :
         /\ loops[i].pc = "body"
         /\ loops' = [loops EXCEPT ![i].pc = "backend"]
    /\ ToBackend
    /\ UNCHANGED <<stopAsked, nStarts>>

(* loop(), lines 257-269: the backend answered, the step ends and the      *)
(* activation goes to sleep                                                *)
LoopFromBackend(decisions) ==
    /\ \E i \in 1..Len(loops) :
         /\ loops[i].pc = "backend"
         /\ loops' = afterPass(i, loop("no", FALSE, "autonomous"), "no", FALSE)
    /\ FromBackend(decisions)
    /\ UNCHANGED <<stopAsked, nStarts>>

(* the tick loop stopped while a step waits for the backend *)
StoppedDecisions ==
    {NoDecision,
     DecisionOf(TxtHi, <<Action("wander", NoPlayer, FALSE),
                         Action("start_mining_task", "stone", FALSE)>>)}

NextStopped ==
    \/ PlannerStart
    \/ PlannerStop
    \/ SetMode({"autonomous"})
    \/ LoopCheck
    \/ LoopBody({NoDecision})
    \/ LoopToBackend
    \/ LoopFromBackend(StoppedDecisions)
    \/ LoopWake

SpecStopped == StartIn({FullKit}, {0}, {AllNear}) /\ [][NextStopped]_vars

(* llm.generateResponse(prompt, context, {reason}) is called *)
AfterGeneration(r) ==
    /\ llm' = r.llm
    /\ generation' = r.gen

GenerateResponse(listOks) ==
    /\ generation.pc # "chat"
    /\ generation.calls < MaxGenerations
    /\ \E listOk \in listOks :
         AfterGeneration(request(llm, [NoGeneration EXCEPT !.calls = generation.calls + 1],
                                 FirstOptions, ollama, listOk, now))
    /\ UNCHANGED <<now, nAdv, speechVars, survivalVars, plannerVars, ollama>>

(* the backend answers the chat request of the call *)
BackendReply(kinds, listOks) ==
    /\ generation.pc = "chat"
    /\ \E kind \in kinds, listOk \in listOks :
         AfterGeneration(reply(llm, generation, kind, ollama, listOk, now))
    /\ UNCHANGED <<now, nAdv, speechVars, survivalVars, plannerVars, ollama>>

(* models are pulled to the backend or removed from it *)
Install(lists) ==
    /\ \E installed \in lists : installed # ollama /\ ollama' = installed
    /\ UNCHANGED <<now, nAdv, speechVars, survivalVars, plannerVars, llm, generation>>

(* reasoning calls, the backend answering in every way *)
NextGenerate ==
    \/ GenerateResponse(BOOLEAN)
    \/ BackendReply(ReplyKinds, BOOLEAN)
    \/ Install(Installs)
    \/ Tick({unavailableMs}, MaxGenerateAdvances)

SpecGenerate == Start({BotInit}, {0}) /\ [][NextGenerate]_vars

(* chat lines addressed to the bot while the autonomous step waits for the *)
(* backend                                                                 *)
NextOverlap ==
    \/ SetMode({"autonomous"})
    \/ StepToBackend
    \/ StepFromBackend(GateDecisions)
    \/ ProcessUserRequest({"al"}, {"direct"}, {Decision(TxtHi, NoFollow)}, {0},
                          MaxOverlapRequests)
    \/ Tick(GateDeltas, MaxSuspendAdvances)

SpecOverlap == StartIn({FullKit}, {0}, {AllNear}) /\ [][NextOverlap]_vars

----------------------------------------------------------------------------
(* Speech Throttle: properties *)

priorityReason(reason) == reason \in {"direct", "mention"}

(* C1: social energy is within [0,100] in every reachable state, whatever  *)
(* the sequence of updateContext/recoverEnergy calls and of emissions.     *)
EnergyInRange == speech.socialEnergy \in 0..100

(* C1, witness: a recovery whose raw sum exceeds 100 has been clamped. *)
EnergyClampedAtMax ==
    /\ speech.socialEnergy = 100
    /\ speech.lastEnergyUpdateAt > Now0

(* C3, as claimed: a candidate whose normalized text equals that of an     *)
(* utterance already admitted within the history window (emitted, or still *)
(* waiting in the queue or in its delay) is rejected for every reason      *)
(* other than direct and mention.                                          *)
DuplicateOfAdmittedRejected ==
    (/\ lastEnqueue.valid
     /\ lastEnqueue.nonEmpty
     /\ ~priorityReason(lastEnqueue.reason)
     /\ (lastEnqueue.dupEmitted \/ lastEnqueue.dupPending))
    => ~lastEnqueue.accepted

(* C4, as claimed: no more than speechBurstMax utterances with a reason    *)
(* other than direct and mention are admitted within one burst window.     *)
BurstLimitOnAdmission == Len(admitTimes) <= speechBurstMax

(* C5, as claimed: once speechDirectBurstMax utterances have been emitted  *)
(* within the burst window, a further direct or mention utterance is       *)
(* rejected.                                                               *)
DirectBurstLimited ==
    (/\ lastEnqueue.valid
     /\ priorityReason(lastEnqueue.reason)
     /\ lastEnqueue.burstCount >= speechDirectBurstMax)
    => ~lastEnqueue.accepted

(* C6: a non-empty utterance with reason direct is always admitted by      *)
(* enqueue, whatever the energy, the next-autonomous timestamp, the        *)
(* cooldowns and the probabilistic gate.                                   *)
DirectAlwaysAdmitted ==
    (lastEnqueue.valid /\ lastEnqueue.reason = "direct" /\ lastEnqueue.nonEmpty)
    => lastEnqueue.accepted

(* C6, witness: a direct utterance admitted while the autonomous gate is   *)
(* closed, its text is in the duplicate history and its player was spoken  *)
(* to within the per-player cooldown.                                      *)
DirectAdmittedDespiteGates ==
    /\ lastEnqueue.valid
    /\ lastEnqueue.reason = "direct"
    /\ lastEnqueue.accepted
    /\ lastEnqueue.gateClosed
    /\ lastEnqueue.dupEmitted
    /\ lastEnqueue.playerCooling

urgentReason(reason) == reason \in {"direct", "mention", "danger", "event", "gift"}

(* C12: an accepted urgent utterance (direct, mention, danger, event,      *)
(* gift) goes ahead of the non-urgent utterances waiting in the queue:     *)
(* whenever the drain takes a non-urgent utterance into its delay, no      *)
(* urgent utterance is left waiting behind it.                             *)
UrgentBeforeWaiting ==
    [][(/\ <<speech.item, speech.wakeAt>>' # <<speech.item, speech.wakeAt>>
        /\ speech'.item # NoItem
        /\ ~urgentReason(speech'.item.reason))
         => \A k \in 1..Len(speech'.queue) : ~urgentReason(speech'.queue[k].reason)]_vars

(* C12, witness: an urgent utterance, accepted after a non-urgent one that *)
(* still waits, is at the head of the queue, before it                     *)
UrgentAheadOfWaiting ==
    /\ Len(speech.queue) >= 2
    /\ urgentReason(speech.queue[1].reason)
    /\ ~urgentReason(speech.queue[2].reason)
    /\ lastEnqueue.accepted
    /\ urgentReason(lastEnqueue.reason)

(* C11: the queue has a single consumer: an enqueue call made while an     *)
(* utterance is dequeued and in its delay starts no second drain loop; it  *)
(* leaves that utterance in flight, with its wake-up time, and emits and   *)
(* dequeues nothing.                                                       *)
SingleConsumer ==
    [][(sleeping /\ nCalls' # nCalls)
         => /\ speech'.processing
            /\ speech'.item = speech.item
            /\ speech'.wakeAt = speech.wakeAt
            /\ speech'.messageHistory = speech.messageHistory
            /\ Len(speech'.queue) >= Len(speech.queue)]_vars

(* C11, witness: an utterance was accepted while another one is in its     *)
(* delay, and waits in the queue                                           *)
AcceptedDuringDelay ==
    /\ sleeping
    /\ speech.queue # << >>
    /\ lastEnqueue.accepted

----------------------------------------------------------------------------
(* Progression Planner: properties *)

(* the last step() call passed its gates on snapshot b and took action a *)
stepChose(b, a) == (lastStep.valid /\ bot = b) => lastStep.action = a

(* C9 as claimed: on the four example snapshots of the specification, with *)
(* unlisted items absent, step() starts gather_wood(24), crafts a crafting *)
(* table, crafts a wooden pickaxe and starts mine(stone, 12) respectively. *)
ExamplesAsStated ==
    /\ stepChose(NothingHeld, Task("gather_wood", "", 24))
    /\ stepChose(PlanksOnly, Skill("craft_item", "crafting_table", 1))
    /\ stepChose(TableAndPlanks, Skill("craft_item", "wooden_pickaxe", 1))
    /\ stepChose(PickAndCobble, Task("mine", "stone", 12))

(* C9 amended: the first two examples are as stated; the third and fourth  *)
(* snapshots hold fewer than 12 wood-equivalents, so step() starts         *)
(* gather_wood(24) on both; the wooden pickaxe is crafted and stone mined  *)
(* once the snapshot also holds 12 logs (and a crafting table).            *)
ExamplesFollowChain ==
    /\ stepChose(NothingHeld, Task("gather_wood", "", 24))
    /\ stepChose(PlanksOnly, Skill("craft_item", "crafting_table", 1))
    /\ stepChose(TableAndPlanks, Task("gather_wood", "", 24))
    /\ stepChose(PickAndCobble, Task("gather_wood", "", 24))
    /\ stepChose(TableAndPlanksWithWood, Skill("craft_item", "wooden_pickaxe", 1))
    /\ stepChose(PickAndCobbleWithWood, Task("mine", "stone", 12))

(* C9 witness: step() has acted on the third example snapshot *)
ThirdExampleStepped ==
    /\ lastStep.valid
    /\ bot = TableAndPlanks
    /\ lastStep.action = Task("gather_wood", "", 24)

(* C10: every step() call that passes its gates on an unchanged snapshot   *)
(* takes the action the first such call took.                              *)
StepDeterministic == lastStep.valid => lastStep.action = lastStep.first

(* C10 witness: step() passed its gates twice on one snapshot, the second  *)
(* time after an action of the first was marked                            *)
SteppedTwiceOnSnapshot ==
    /\ lastStep.valid
    /\ lastStep.repeated
    /\ lastStep.action # NoAction

----------------------------------------------------------------------------
(* Decision Orchestrator: properties *)

(* C13: a social turn is consumed only on acceptance: socialIndex,         *)
(* lastSocialChatAt and the per-player lastSpokeAt change only in a step   *)
(* whose utterance the speech manager accepted, which then waits in the    *)
(* queue or in its delay; they stay when enqueue rejects the utterance or  *)
(* the decision has none.                                                  *)
SocialTurnOnlyOnAcceptance ==
    [][(\/ planner'.socialIndex # planner.socialIndex
        \/ planner'.lastSocialChatAt # planner.lastSocialChatAt
        \/ planner'.lastSpokeAt # planner.lastSpokeAt)
         => /\ lastAuto'.submitted
            /\ lastAuto'.accepted
            /\ Len(pending') > Len(pending)]_vars

(* C13, witness: a step addressed its social target and the utterance was  *)
(* rejected; the turn is still to be taken                                 *)
RejectedTurnKept ==
    /\ lastAuto.valid
    /\ lastAuto.usedSocial
    /\ lastAuto.submitted
    /\ ~lastAuto.accepted
    /\ planner.socialIndex = 0
    /\ planner.lastSocialChatAt = 0
    /\ \A p \in Players : planner.lastSpokeAt[p] = 0

(* C2: whenever as many consecutive social turns as there are eligible     *)
(* names were completed over one unchanged set of eligible names, every    *)
(* eligible name was addressed in them, hence each exactly once.           *)
RoundRobinFair ==
    \A i \in 1..Len(rounds) :
      LET eligible == rounds[i].eligible
          last == i + Cardinality(eligible) - 1
      IN (last <= Len(rounds) /\ \A j \in i..last : rounds[j].eligible = eligible)
           => {rounds[j].target : j \in i..last} = eligible

(* C2 witness: three consecutive social turns over the three players *)
FullRotationCompleted ==
    /\ Len(rounds) >= 3
    /\ \A j \in 1..3 : rounds[j].eligible = Players

(* C7: a request to follow another player than the follow target is        *)
(* refused while the target is visible in the last scan and its stick      *)
(* window is open.                                                         *)
StickyTargetKept ==
    (lastFollow.valid /\ lastFollow.different /\ lastFollow.sticky)
      => ~lastFollow.admitted

(* C7 witness: such a request was refused although the global cooldown     *)
(* had elapsed and the pathfinder was idle                                 *)
RefusedByStickinessAlone ==
    /\ lastFollow.valid
    /\ lastFollow.different
    /\ lastFollow.sticky
    /\ lastFollow.cooldownElapsed
    /\ ~lastFollow.moving
    /\ ~lastFollow.admitted

(* C8 as claimed: a request to follow the current follow target is always  *)
(* admitted, at any time after the target was marked.                      *)
SameTargetAlwaysAdmitted ==
    (lastFollow.valid /\ lastFollow.same) => lastFollow.admitted

(* C8 amended: a request to follow the current follow target is admitted   *)
(* whenever the global follow cooldown has elapsed since the last admitted *)
(* follow; neither the stick window nor a moving pathfinder refuses it.    *)
SameTargetAdmittedAfterCooldown ==
    (lastFollow.valid /\ lastFollow.same /\ lastFollow.cooldownElapsed)
      => lastFollow.admitted

(* C8 witness: the current target was admitted again while the pathfinder  *)
(* was moving and the stick window was open                                *)
SameTargetAdmittedWhileMoving ==
    /\ lastFollow.valid
    /\ lastFollow.same
    /\ lastFollow.cooldownElapsed
    /\ lastFollow.moving
    /\ lastFollow.sticky
    /\ lastFollow.admitted

----------------------------------------------------------------------------
(* Orchestrator, the autonomous step: properties *)

(* C15: a skill that throws fails alone: every action of the decision is   *)
(* still handled, in order, and an apology naming the failed action is     *)
(* submitted to the speech manager; for follow as for any other skill.     *)
FailureContained ==
    lastDispatch.valid
      => /\ ~lastDispatch.escaped
         /\ lastDispatch.done = Len(lastDispatch.actions)
         /\ \A k \in 1..Len(lastDispatch.actions) :
              (lastDispatch.actions[k].throws
                 /\ lastDispatch.actions[k].name \in SkillNames \ {"follow"})
                => \E j \in 1..Len(lastDispatch.apologies) :
                     lastDispatch.apologies[j] = lastDispatch.actions[k].name

(* C17: the agent never sits idle when alone: an autonomous step that is   *)
(* solo, not moving, with no task busy, in which the survival step did not *)
(* act and the backend was not consulted, issues a wander.                 *)
NeverIdleAlone ==
    (/\ lastAuto.valid
     /\ lastAuto.solo
     /\ ~lastAuto.moving
     /\ ~lastAuto.busy
     /\ ~lastAuto.acted
     /\ ~lastAuto.consulted)
      => lastAuto.wandered

(* C21: the decision cooldown is independent of the query cooldown: a step *)
(* that passes the query gate and is blocked by the decision cooldown      *)
(* consults nothing and leaves lastLLMAt as it was.                        *)
BlockedDecisionKeepsQueryCooldown ==
    [][(lastAuto' # lastAuto /\ lastAuto'.queried /\ ~lastAuto'.consulted)
         => planner'.lastLLMAt = planner.lastLLMAt]_vars

(* C19: progression takes priority: a step in which the survival step      *)
(* acted while solo or in survival mode does not consult the backend,      *)
(* submits no utterance and dispatches no action of a decision.            *)
ProgressionFirst ==
    (lastAuto.valid /\ lastAuto.acted /\ (lastAuto.solo \/ lastAuto.mode = "survival"))
      => /\ ~lastAuto.queried
         /\ ~lastAuto.consulted
         /\ ~lastAuto.answered
         /\ ~lastAuto.submitted
         /\ lastAuto.done = 0
         /\ lastAuto.apologies = << >>

(* C19, witness: among players, in survival mode and with both gates open, *)
(* the survival step acted and the backend was left alone                  *)
ProgressedAmongPlayers ==
    /\ lastAuto.valid
    /\ lastAuto.acted
    /\ lastAuto.mode = "survival"
    /\ ~lastAuto.solo
    /\ lastAuto.sincePass >= chatCooldown
    /\ lastAuto.sinceConsult >= autonomousDecisionCooldownMs
    /\ ~lastAuto.consulted

(* C20: the autonomous step consults the backend only behind both gates:   *)
(* a consultation is at least autonomousDecisionCooldownMs after the       *)
(* previous consultation of the step and at least chatCooldown after the   *)
(* previous time shouldQueryLLM returned true, forced or not.              *)
ConsultsBehindBothGates ==
    (lastAuto.valid /\ lastAuto.consulted)
      => /\ lastAuto.sinceConsult >= autonomousDecisionCooldownMs
         /\ lastAuto.sincePass >= chatCooldown

(* C20, witness: a second consultation, exactly one decision cooldown      *)
(* after the first, with a pass of the query gate in between               *)
ConsultedAfterCooldown ==
    /\ lastAuto.valid
    /\ lastAuto.consulted
    /\ lastAuto.sinceConsult = autonomousDecisionCooldownMs
    /\ lastAuto.sincePass < lastAuto.sinceConsult

----------------------------------------------------------------------------
(* Orchestrator, the tick loop: properties *)

(* activation i of loop() leaves the body of its pass in this step *)
passes(i) == loops[i].pc = "body" /\ Len(loops') = Len(loops) /\ loops'[i].pc # "body"

(* C14: nothing but stop() ends the tick loop: an activation returns only  *)
(* when the running flag is false; a pass of the body always ends in one   *)
(* of the two sleeps, and a pass in which anything threw ends in the slow  *)
(* sleep; after a sleep, with the flag true, the next pass begins.         *)
OnlyStopEndsLoop ==
    [][/\ Len(loops') < Len(loops) => ~planner.isRunning
       /\ \A i \in 1..Len(loops) :
            /\ passes(i)
                 => /\ sleepingLoop(loops'[i])
                    /\ loops'[i].threw
                         => /\ loops'[i].pc = "sleepSlow"
                            /\ loops'[i].wakeAt = now + slowTickMs
            /\ (loops[i].pc = "check" /\ planner.isRunning
                   /\ Len(loops') = Len(loops) /\ loops'[i] # loops[i])
                 => loops'[i].pc = "body"]_vars

(* C14, witness: a pass threw, the activation slept and began its next     *)
(* pass                                                                    *)
ContinuedAfterThrow ==
    \E i \in 1..Len(loops) :
      /\ loops[i].pc = "body"
      /\ loops[i].threw
      /\ loops[i].wakeAt = now
      /\ planner.isRunning

(* C16: after stop() the loop halts: the running flag goes down only with  *)
(* taskManager.stopTask() called; an activation that finds the flag down   *)
(* at its check begins no pass; and once stopped, unless start() is called *)
(* again, every activation eventually returns.                             *)
StopHaltsLoop ==
    /\ [][/\ (planner.isRunning /\ ~planner'.isRunning) => stopAsked'
          /\ \A i \in 1..Len(loops) :
               (loops[i].pc = "check" /\ Len(loops') = Len(loops)
                  /\ loops'[i].pc = "body")
                 => planner.isRunning]_vars
    /\ (stopAsked /\ ~planner.isRunning) ~> (planner.isRunning \/ loops = << >>)

(* C16, witness: stopped while the loop slept after a pass; the activation *)
(* has returned                                                            *)
StoppedAndReturned ==
    /\ stopAsked
    /\ ~planner.isRunning
    /\ nStarts >= 1
    /\ nAdv >= 1
    /\ loops = << >>

(* C18: the fast and the slow path: a pass in which update() reports an    *)
(* active task runs neither the autonomous step nor the manual branch and  *)
(* sleeps fastTickMs; every other pass sleeps slowTickMs; the next pass    *)
(* begins no earlier than the end of the sleep; so a pass that consults    *)
(* the backend is followed by the slow sleep.                              *)
FastAndSlowPaths ==
    [][/\ \A i \in 1..Len(loops) :
            /\ passes(i)
                 => IF loops'[i].active
                    THEN /\ loops'[i].pc = "sleepFast"
                         /\ loops'[i].wakeAt = now + fastTickMs
                         /\ loops'[i].ran = "none"
                         /\ UNCHANGED <<planner, speech, survival, lastAuto, gateLog>>
                    ELSE /\ loops'[i].pc = "sleepSlow"
                         /\ loops'[i].wakeAt = now + slowTickMs
            /\ (sleepingLoop(loops[i]) /\ Len(loops') = Len(loops)
                   /\ loops'[i].pc = "check")
                 => now' >= loops[i].wakeAt
       /\ gateLog'.consultAt # gateLog.consultAt
            => \E i \in 1..Len(loops) :
                 /\ passes(i)
                 /\ loops'[i].pc = "sleepSlow"
                 /\ loops'[i].wakeAt = now + slowTickMs]_vars

(* C18, witness: update() reported an active task and the pass took the    *)
(* fast path, after a pass that took the slow one                          *)
FastPathTaken ==
    \E i \in 1..Len(loops) :
      /\ loops[i].pc = "sleepFast"
      /\ loops[i].wakeAt = now + fastTickMs
      /\ loops[i].active
      /\ planner.mode = "autonomous"
      /\ nAdv >= 1

----------------------------------------------------------------------------
(* Orchestrator, follow state: properties *)

(* a follow request reached canFollowTarget in this step *)
followAttempt == lastFollow' # lastFollow /\ lastFollow'.valid

FollowStateInvariant ==
    /\ [](planner.followState.stickUntil >= planner.followState.since)
    /\ [][/\ planner'.followState # planner.followState
               => /\ lastFollow'.valid
                  /\ lastFollow'.admitted
                  /\ lastFollow'.name # NoPlayer
                  /\ planner'.followState.target = lastFollow'.name
          /\ planner.followState.target # NoPlayer
               => planner'.followState.target # NoPlayer]_vars

(* C23, witness: the target was superseded by another admitted target *)
TargetSuperseded ==
    /\ lastFollow.valid
    /\ lastFollow.admitted
    /\ lastFollow.different
    /\ planner.followState.target = lastFollow.name
    /\ planner.followState.since = now
    /\ planner.followState.stickUntil = now + followStickMs

----------------------------------------------------------------------------
(* Orchestrator, social target: properties *)

(* the bot's own entry in a list of players *)
SelfSighting == [name |-> username, hasEntity |-> TRUE, distance |-> 0]

(* the lists getSocialTarget is called with: the scan as it is, and with   *)
(* the bot's own entry in it                                               *)
SocialPlayerLists == {scanPlayers(world), scanPlayers(world) \cup {SelfSighting}}

(* the planner as it is, and with the round cooldown long elapsed *)
SocialPlanners == {planner, [planner EXCEPT !.lastSocialChatAt = 0]}

(* the name target is one getSocialTarget may return for pl and players *)
socialTargetAllowed(pl, players, target) ==
    /\ target # username
    /\ ~isMuted(muteUntil, target, now)
    /\ now - pl.lastSpokeAt[target] >= perPlayerChatCooldown
    /\ \E p \in players :
         p.name = target /\ p.hasEntity /\ p.distance <= socialMaxDistance
    /\ now - pl.lastSocialChatAt >= socialRoundInterval

(* C24: the player getSocialTarget returns is not the bot, is not muted,   *)
(* is outside its per-player cooldown, has an entity within the social     *)
(* distance, and none is returned within socialRoundInterval of the last   *)
(* social utterance.                                                       *)
SocialTargetEligible ==
    \A pl \in SocialPlanners, players \in SocialPlayerLists :
      getSocialTarget(pl, muteUntil, players, now) # NoPlayer
        => socialTargetAllowed(pl, players, getSocialTarget(pl, muteUntil, players, now))

(* C24, witness: after a social turn, with the bot in the list, a player   *)
(* muted and the player of that turn still in its cooldown, the third      *)
(* player is returned once the round cooldown is over                      *)
SocialTargetAmongExcluded ==
    /\ Len(rounds) >= 1
    /\ \E p, q \in Players :
         /\ isMuted(muteUntil, p, now)
         /\ now - planner.lastSpokeAt[q] < perPlayerChatCooldown
         /\ getSocialTarget([planner EXCEPT !.lastSocialChatAt = 0], muteUntil,
                            scanPlayers(world) \cup {SelfSighting}, now)
              \notin {p, q, NoPlayer}

----------------------------------------------------------------------------
(* SpeechManager, autonomous interval: properties *)

(* this step emits the autonomous-class utterance the consumer slept on *)
autonomousEmission ==
    /\ sleeping
    /\ isAutonomousReason(speech.item.reason)
    /\ speech'.lastSpokeAt # speech.lastSpokeAt

(* C25: two autonomous-class utterances are never emitted closer together  *)
(* than speechAutonomousMinIntervalMs, also when several candidates are    *)
(* submitted while an earlier one is queued or in its delay. Where every   *)
(* utterance is autonomous-class, lastSpokeAt is the time of the previous  *)
(* autonomous-class emission.                                              *)
AutonomousEmissionsSpaced ==
    [][(autonomousEmission /\ speech.lastSpokeAt # 0)
         => speech'.lastSpokeAt - speech.lastSpokeAt >= speechAutonomousMinIntervalMs]_vars

----------------------------------------------------------------------------
(* SurvivalDirector, gates and chain of step(): properties *)

(* step() was called and got past shouldStep *)
stepCall == survival' # survival

(* the call marked the action cooldown *)
stepActed == survival'.lastActionAt # survival.lastActionAt

satisfied(b) == {i \in 1..Len(chain(b)) : chain(b)[i].when}

(* the call of the first condition that holds, NoAction if none does *)
firstSatisfied(b) ==
    IF satisfied(b) = {} THEN NoAction
    ELSE chain(b)[CHOOSE i \in satisfied(b) : \A j \in satisfied(b) : i <= j].action

IronTier ==
    {Task("mine", "iron_ore", 6), Skill("craft_item", "iron_pickaxe", 1)}
      \cup {Skill("use_furnace", "raw_iron", n) : n \in 1..8}

(* C28: mining iron ore, smelting raw iron and crafting the iron pickaxe   *)
(* are each chosen only while the stone pickaxe is held and the iron       *)
(* pickaxe is not; within that guard step() mines when raw + ore + ingot   *)
(* is below 6, else smelts held raw iron, else crafts the iron pickaxe     *)
(* once 3 ingots are held.                                                 *)
IronTierGuarded ==
    (lastStep.valid /\ lastStep.action \in IronTier)
      => /\ hasItem(bot, "stone_pickaxe")
         /\ ~hasItem(bot, "iron_pickaxe")
         /\ lastStep.action =
              IF countItem(bot, "raw_iron") + countItem(bot, "iron_ore")
                   + countItem(bot, "iron_ingot") < 6
              THEN Task("mine", "iron_ore", 6)
              ELSE IF countItem(bot, "raw_iron") > 0
              THEN Skill("use_furnace", "raw_iron", Min(countItem(bot, "raw_iron"), 8))
              ELSE Skill("craft_item", "iron_pickaxe", 1)

----------------------------------------------------------------------------
(* SpeechManager, social energy: properties *)

(* the full 10-second steps since the last recompute *)
stepsElapsed == (now - speech.lastEnergyUpdateAt) \div stepMs

(* the net-rate energy after k steps by day and by night *)
netRecovered(k, night) ==
    clamp(speech.socialEnergy + k * speechEnergyRecoverPer10s
            - (IF night THEN k * speechEnergyNightPenalty ELSE 0), 0, 100)

(* C29: when updateContext runs after k >= 1 full steps the new energy is  *)
(* clamp(old + k*recoverPerStep - (k*nightPenalty if night), 0, 100); when *)
(* less than one full step has elapsed, energy and lastEnergyUpdateAt stay.*)
RecoveryAtNetRate ==
    [][/\ speech'.lastEnergyUpdateAt # speech.lastEnergyUpdateAt
            => /\ stepsElapsed >= 1
               /\ speech'.lastEnergyUpdateAt = now
               /\ speech'.socialEnergy
                    \in {netRecovered(stepsElapsed, FALSE), netRecovered(stepsElapsed, TRUE)}
       /\ (speech'.nearby # speech.nearby /\ stepsElapsed < 1)
            => /\ speech'.socialEnergy = speech.socialEnergy
               /\ speech'.lastEnergyUpdateAt = speech.lastEnergyUpdateAt]_vars

(* this step emits the utterance the consumer slept on, and no other *)
sleptEmission ==
    /\ sleeping
    /\ Len(speech'.messageTimestamps)
         = Len(freshTimestamps(speech.messageTimestamps, now)) + 1

(* C30: every emitted utterance lowers the energy by the decay of its      *)
(* reason class, clamped at 0, and the decays are ordered: a direct        *)
(* utterance costs less than an event, danger or gift utterance, which     *)
(* costs less than any other.                                              *)
DecayOrderedByClass ==
    [][sleptEmission
         => /\ speech'.socialEnergy
                 = clamp(speech.socialEnergy - energyDecay(speech.item.reason), 0, 100)
            /\ speech.item.reason = "direct"
                 => energyDecay(speech.item.reason) < energyDecay("event")
            /\ speech.item.reason \in {"event", "danger", "gift"}
                 => energyDecay(speech.item.reason) < energyDecay("ambient")]_vars

----------------------------------------------------------------------------
(* Orchestrator, chat requests without a decision: properties *)

(* C31: the fallback utterance for a request that got no decision is       *)
(* enqueued only for a direct or mention request, never for a passive      *)
(* request of the general chat.                                            *)
FallbackOnlyForDirect ==
    (lastRequest.valid /\ lastRequest.fallback) => ~lastRequest.passive

----------------------------------------------------------------------------
(* Orchestrator, start() and stop(): properties *)

(* C32: at most one activation of loop() is iterating, whatever the        *)
(* sequence of start() and stop() calls: no activation goes into another   *)
(* pass of the body while a younger activation has already run one.        *)
OneLoopIterating ==
    \A i, j \in 1..Len(loops) :
      i < j => ~(loops[i].pc = "body" /\ loops[i].ran # "none" /\ loops[j].ran # "none")

----------------------------------------------------------------------------
(* SpeechManager, the drain of the queue: properties *)

(* the utterance with this text waits in the queue or in its delay *)
waiting(text) == \E i \in 1..Len(pending) : pending[i].text = text

(* how often an utterance with this text was emitted *)
emissions(text) ==
    Cardinality({i \in 1..Len(speech.messageHistory) :
                   speech.messageHistory[i].normalized = normalizeText(text)})

FlagHeldOnlyByConsumer == speech.processing => sleeping

(* the call of enqueue that submitted this text *)
callOf(text) == CHOOSE k \in 1..Len(DrainTexts) : DrainTexts[k] = text

(* C35: utterances of the same urgency class leave the queue in the order  *)
(* in which they were accepted: of two urgent, or two non-urgent,          *)
(* utterances waiting in the queue, the one accepted first is nearer the   *)
(* head.                                                                   *)
SameClassInOrder ==
    \A i, j \in 1..Len(speech.queue) :
      (i < j /\ isHeadReason(speech.queue[i].reason) = isHeadReason(speech.queue[j].reason))
        => callOf(speech.queue[i].text) < callOf(speech.queue[j].text)

----------------------------------------------------------------------------
(* Orchestrator, the autonomous step across its awaits: properties *)

(* C36: the autonomous step consults the backend only while the mode is    *)
(* autonomous or survival, also when the mode was changed while the step   *)
(* was suspended at an await: mode is the mode the step found when it went *)
(* on to the gates.                                                        *)
ConsultsOnlyInAutoModes ==
    (lastAuto.valid /\ lastAuto.consulted) => lastAuto.mode \in {"autonomous", "survival"}

(* C37: at most one consultation of the backend is in progress: a chat     *)
(* request that arrives while the autonomous step waits for the answer of  *)
(* the backend does not consult the backend itself.                        *)
OneConsultationAtATime ==
    [][(nReq' = nReq + 1 /\ lastRequest'.consulted) => inFlight.pc # "backend"]_vars

(* C38: once stop() was called and start() was not called again, no        *)
(* foreground task is started and no skill action is dispatched, also when *)
(* a step was waiting for the backend at the time of stop().               *)
NothingAfterStop ==
    [][(stopAsked /\ ~planner.isRunning /\ ~planner'.isRunning)
         => /\ taskBusy' => taskBusy
            /\ lastAuto' # lastAuto
                 => (lastAuto'.done = 0 /\ ~lastAuto'.wandered /\ ~lastAuto'.pickedUp)]_vars

(* C39: the progression never stalls short of the iron pickaxe: a call of  *)
(* step() that passed its gates (cooldowns elapsed, no task running) on a  *)
(* snapshot without the iron pickaxe takes an action.                      *)
NeverStallsBelowIron ==
    (lastStep.valid /\ ~hasItem(bot, "iron_pickaxe")) => lastStep.action # NoAction

(* C40: a generateResponse call tries the fallback model at most once,     *)
(* also when the reformulation is asked for in the same call.              *)
FallbackTriedOnce == generation.fallbacks <= 1

====
